---- MODULE Spec2Model ----
(***************************************************************************)
(* Model of src/src/app/components/SafetyDashboard.tsx: the daily-status   *)
(* calendar, the 16:00 auto-safe scheduler, the load/persist effects and   *)
(* the formula evaluator safeEval.                                         *)
(*                                                                         *)
(* Conventions.  JavaScript arrays are functions over 0..n-1, so indexes   *)
(* are the source's indexes.  The status null is the string "null".  A     *)
(* moment (a JavaScript Date in local time) is a record                    *)
(* [year, month, date, ms] with month 0..11 as Date.getMonth() returns it  *)
(* and ms the milliseconds since local midnight.  Daylight-saving shifts   *)
(* are outside the model: every day has 86400000 ms.                       *)
(***************************************************************************)
EXTENDS Integers, Sequences, FiniteSets, TLC

VARIABLES
    now,          \* the wall clock, what `new Date()` returns
    mounted,      \* a SafetyDashboard instance is mounted
    currentYear,  \* useState currentYear
    displayMonth, \* useState displayMonth
    monthlyData,  \* useState monthlyData (the state after all queued updaters)
    rendered,     \* what the last render closed over: [monthlyData, displayMonth]
    renderPending,\* a state update is queued that no render has picked up yet
    timer,        \* the pending rollover timeouts of the scheduler effect: their deadlines, in arming order
    writeTimer,   \* the pending debounce timeouts of the persist effect: a set of [deadline, key, payload]
    storage,      \* localStorage, one document per year key
    settings,     \* the useState values beside the calendar: announcements, metrics, poster, zooms, target variables
    lastOp,       \* the operation that produced this state
    ticks, events,   \* counters that bound the exploration
    args,         \* the arguments of the function a function-level specification applies
    ret,          \* what that function returned, and how often it was applied
    expr,         \* safeEval: the expression text, a sequence of characters
    evars,        \* safeEval: the variable mapping handed to it
    env,          \* safeEval: the state outside the evaluator that a script can reach
    result,       \* safeEval: the value returned by the last evaluation
    prevResult,   \* safeEval: the value returned by the evaluation before it
    evalCount,    \* safeEval: number of evaluations so far
    reachedEval   \* safeEval: the last call got past the whitelist to `new Function`

dashVars == <<now, mounted, currentYear, displayMonth, monthlyData, rendered,
              renderPending, timer, writeTimer, storage, settings, lastOp, ticks, events>>
evalVars == <<expr, evars, env, result, prevResult, evalCount, reachedEval>>
callVars == <<args, ret>>
vars == <<dashVars, callVars, evalVars>>

----------------------------------------------------------------------------
(* Bounds of the exploration *)
MaxTicks  == 6
MaxEvents == 2
MaxCycles == 4
MaxExprLen == 3
MaxEvals == 2
MaxEdits == 3

----------------------------------------------------------------------------
(* Program constants *)
AUTO_SAFE_HOUR == 16
DEBOUNCE_MS    == 450
MIN_DELAY_MS   == 250
ZOOM_MIN       == 50      \* 0.5: the zoom levels are counted in hundredths
ZOOM_MAX       == 250     \* 2.5
ZOOM_STEP      == 10      \* 0.1
ZOOM_RESET     == 100     \* 1
MS_PER_MINUTE  == 60 * 1000
MS_PER_HOUR    == 60 * MS_PER_MINUTE
MS_PER_DAY     == 24 * MS_PER_HOUR

null == "null"
DayStatus == {"safe", "near_miss", "accident", null}

Max(a, b) == IF a >= b THEN a ELSE b
Min(a, b) == IF a <= b THEN a ELSE b

----------------------------------------------------------------------------
(* Date arithmetic, as the JavaScript Date constructor does it *)

IsLeap(y) == (y % 4 = 0 /\ y % 100 # 0) \/ y % 400 = 0

\* new Date(year, m + 1, 0).getDate(): the number of days of month m (0..11)
DaysInMonth(year, m) ==
    IF m = 1 THEN (IF IsLeap(year) THEN 29 ELSE 28)
    ELSE IF m \in {3, 5, 8, 10} THEN 30 ELSE 31

\* the days of the year before the first of month m (0..11)
DaysBeforeMonth(year, m) ==
    <<0, 31, 59, 90, 120, 151, 181, 212, 243, 273, 304, 334>>[m + 1]
    + (IF m >= 2 /\ IsLeap(year) THEN 1 ELSE 0)

DaysBeforeYear(y) == 365 * (y - 1) + ((y - 1) \div 4) - ((y - 1) \div 100) + ((y - 1) \div 400)

\* new Date(year, m, d) as a day number; a day-of-month outside 1..N rolls
\* into the neighbouring months exactly as the Date constructor normalises it
DayNum(year, m, d) == DaysBeforeYear(year) + DaysBeforeMonth(year, m) + d

getHours(t)   == t.ms \div MS_PER_HOUR
getMinutes(t) == (t.ms \div MS_PER_MINUTE) % 60

MomentLT(a, b) ==
    \/ DayNum(a.year, a.month, a.date) < DayNum(b.year, b.month, b.date)
    \/ /\ DayNum(a.year, a.month, a.date) = DayNum(b.year, b.month, b.date)
       /\ a.ms < b.ms
MomentLE(a, b) == a = b \/ MomentLT(a, b)

\* next.setDate(next.getDate() + 1)
NextDate(t) ==
    IF t.date < DaysInMonth(t.year, t.month) THEN [t EXCEPT !.date = t.date + 1]
    ELSE IF t.month < 11 THEN [t EXCEPT !.month = t.month + 1, !.date = 1]
    ELSE [t EXCEPT !.year = t.year + 1, !.month = 0, !.date = 1]

\* the moment k ms after t, for 0 <= k <= MS_PER_DAY
AddMs(t, k) ==
    IF t.ms + k < MS_PER_DAY THEN [t EXCEPT !.ms = t.ms + k]
    ELSE [NextDate(t) EXCEPT !.ms = t.ms + k - MS_PER_DAY]

\* b.getTime() - a.getTime() for a <= b at most one day apart
DiffMs(a, b) ==
    (DayNum(b.year, b.month, b.date) - DayNum(a.year, a.month, a.date)) * MS_PER_DAY + b.ms - a.ms

----------------------------------------------------------------------------
(* Calendar model *)

\* nextDayStatus without the near_miss branch: near_miss falls through to
\* the final `return null`
nextDayStatusNoAccident(status) ==
    IF status = null THEN "safe"
    ELSE IF status = "safe" THEN "near_miss"
    ELSE null

nextDayStatus(status) ==
    IF status = null THEN "safe"
    ELSE IF status = "safe" THEN "near_miss"
    ELSE IF status = "near_miss" THEN "accident"
    ELSE null

\* createYearData with every year taken for a common year
createYearDataCommonYear(year) ==
    [m \in 0..11 |->
        [month |-> m, year |-> year,
         days  |-> [i \in 0..((IF m = 1 THEN 28 ELSE DaysInMonth(year, m)) - 1) |->
                      [day |-> i + 1, status |-> null]]]]

createYearData(year) ==
    [m \in 0..11 |->
        [month |-> m, year |-> year,
         days  |-> [i \in 0..(DaysInMonth(year, m) - 1) |-> [day |-> i + 1, status |-> null]]]]

Length(arr) == Cardinality(DOMAIN arr)

\* A value parsed from storage carries its JSON type: [type |-> "array",
\* items |-> the array] or a value of another type.  The months of a stored
\* array are records whose `days` is an array.
JArray(items) == [type |-> "array", items |-> items]
JString       == [type |-> "string"]
JText(s)      == [type |-> "string", s |-> s]
JNumber(n)    == [type |-> "number", n |-> n]
JObject(f)    == [type |-> "object", fields |-> f]
JNull         == [type |-> "null"]
JMissing      == [type |-> "undefined"]   \* the document has no such property
IsArray(x)    == x.type = "array"

\* isValidMonthlyData without `m.year === year`
isValidMonthlyDataAnyYear(data, year) ==
    /\ IsArray(data)
    /\ Length(data.items) = 12
    /\ \A idx \in DOMAIN data.items :
          /\ data.items[idx].month = idx
          /\ Length(data.items[idx].days) = DaysInMonth(year, idx)

isValidMonthlyData(data, year) ==
    /\ IsArray(data)
    /\ Length(data.items) = 12
    /\ \A idx \in DOMAIN data.items :
          /\ data.items[idx].month = idx
          /\ data.items[idx].year = year
          /\ Length(data.items[idx].days) = DaysInMonth(year, idx)

\* Promoted without `if (dd.status !== null) continue`: decided days are
\* promoted too
PromotedWhateverStatus(dd, m, year, t, todayStart, afterCutoff) ==
    \/ DayNum(year, m, dd.day) < todayStart
    \/ afterCutoff /\ m = t.month /\ dd.day = t.date

\* Promoted with `dt <= todayStart`: today is taken for a past day
PromotedThroughToday(dd, m, year, t, todayStart, afterCutoff) ==
    /\ dd.status = null
    /\ \/ DayNum(year, m, dd.day) <= todayStart
       \/ afterCutoff /\ m = t.month /\ dd.day = t.date

\* the test of the two `if`s in the loop of applyAutoSafe for the record dd
\* of month m
Promoted(dd, m, year, t, todayStart, afterCutoff) ==
    /\ dd.status = null
    /\ \/ DayNum(year, m, dd.day) < todayStart
       \/ afterCutoff /\ m = t.month /\ dd.day = t.date

applyAutoSafe(prev, t, year) ==
    IF t.year # year THEN prev
    ELSE LET todayStart  == DayNum(year, t.month, t.date)
             afterCutoff == (getHours(t) > AUTO_SAFE_HOUR)
                            \/ (getHours(t) = AUTO_SAFE_HOUR /\ getMinutes(t) >= 0)
         IN  [m \in DOMAIN prev |->
                IF m > 11 THEN prev[m]
                ELSE [prev[m] EXCEPT !.days =
                        [i \in DOMAIN prev[m].days |->
                           IF Promoted(prev[m].days[i], m, year, t, todayStart, afterCutoff)
                           THEN [prev[m].days[i] EXCEPT !.status = "safe"]
                           ELSE prev[m].days[i]]]]

\* a copy made by `prev.map((mm) => ({ ...mm }))`: the months are new
\* objects, their days arrays and day records are those of prev
ensureNextShallow == {"days", "records"}

\* What the copy made by ensureNext shares with prev, of "months", "days"
\* (the days arrays) and "records" (the day records): nothing, every level
\* is mapped or spread into new objects
ensureNext == {}

\* `changed`: the loop promoted at least one day
Changed(prev, t, year) ==
    /\ t.year = year
    /\ LET todayStart  == DayNum(year, t.month, t.date)
           afterCutoff == (getHours(t) > AUTO_SAFE_HOUR)
                          \/ (getHours(t) = AUTO_SAFE_HOUR /\ getMinutes(t) >= 0)
       IN  \E m \in DOMAIN prev : \E i \in DOMAIN prev[m].days :
              m <= 11 /\ Promoted(prev[m].days[i], m, year, t, todayStart, afterCutoff)

\* applyAutoSafe that always returns the copy
applyAutoSafeCallAlwaysNext(prev, t, year) ==
    [value |-> applyAutoSafe(prev, t, year), same |-> FALSE, input |-> prev]

\* One call of applyAutoSafe: [value, same, input], `same` saying that the
\* array returned is prev itself, `input` what prev holds after the call:
\* `tgt.status = 'safe'` writes into prev when tgt is a day record of prev
applyAutoSafeCall(prev, t, year) ==
    [value |-> applyAutoSafe(prev, t, year),
     same  |-> ~Changed(prev, t, year),
     input |-> IF Changed(prev, t, year) /\ "records" \in ensureNext
               THEN applyAutoSafe(prev, t, year) ELSE prev]

\* arr[i] in JavaScript: undefined when the array has no such index
Index(arr, i) ==
    IF i \in DOMAIN arr THEN [defined |-> TRUE, v |-> arr[i]] ELSE [defined |-> FALSE, v |-> << >>]

\* the updater without `if (!month) return prev`: month.days of an undefined
\* month is a TypeError
setDayStatusCallUnguarded(prev, dMonth, day, status) ==
    LET month == Index(prev, dMonth)
    IN  IF ~month.defined THEN [thrown |-> TRUE, same |-> FALSE, value |-> prev]
        ELSE LET target == Index(month.v.days, day - 1)
             IN  IF ~target.defined THEN [thrown |-> FALSE, same |-> TRUE, value |-> prev]
                 ELSE [thrown |-> FALSE, same |-> FALSE,
                       value |-> [prev EXCEPT ![dMonth].days[day - 1].status = status]]

\* the updater that writes the status into every day of the month
setDayStatusCallWholeMonth(prev, dMonth, day, status) ==
    LET month == Index(prev, dMonth)
    IN  IF ~month.defined THEN [thrown |-> FALSE, same |-> TRUE, value |-> prev]
        ELSE LET target == Index(month.v.days, day - 1)
             IN  IF ~target.defined THEN [thrown |-> FALSE, same |-> TRUE, value |-> prev]
                 ELSE [thrown |-> FALSE, same |-> FALSE,
                       value |-> [prev EXCEPT ![dMonth].days =
                                    [i \in DOMAIN month.v.days |-> [month.v.days[i] EXCEPT !.status = status]]]]

\* One run of the updater of setDayStatus: [thrown, same, value], `same`
\* saying that the array returned is prev itself and not the copy `next`
setDayStatusCall(prev, dMonth, day, status) ==
    LET month == Index(prev, dMonth)
    IN  IF ~month.defined THEN [thrown |-> FALSE, same |-> TRUE, value |-> prev]
        ELSE LET target == Index(month.v.days, day - 1)
             IN  IF ~target.defined THEN [thrown |-> FALSE, same |-> TRUE, value |-> prev]
                 ELSE [thrown |-> FALSE, same |-> FALSE,
                       value |-> [prev EXCEPT ![dMonth].days[day - 1].status = status]]

\* the calendar setDayStatus leaves in the state: the month is the
\* displayMonth the handler closed over
setDayStatus(prev, dMonth, day, status) ==
    setDayStatusCall(prev, dMonth, day, status).value

\* displayMonthData?.days?.[day - 1]?.status ?? null, read from the render
StatusAt(data, m, i) ==
    IF m \in DOMAIN data /\ i \in DOMAIN data[m].days THEN data[m].days[i].status ELSE null

\* cycleDayStatus that writes into the calendar of the last render instead
\* of the queued state: setMonthlyData(value) in place of an updater
cycleDayStatusOnRendered(prev, shown, dMonth, day) ==
    setDayStatus(shown, dMonth, day, nextDayStatus(StatusAt(shown, dMonth, day - 1)))

cycleDayStatus(prev, shown, dMonth, day) ==
    setDayStatus(prev, dMonth, day, nextDayStatus(StatusAt(shown, dMonth, day - 1)))

----------------------------------------------------------------------------
(* The scheduler effect *)

CutoffMs == AUTO_SAFE_HOUR * MS_PER_HOUR

\* scheduleNext without the test against today's cutoff: always tomorrow's
scheduleNextTomorrow(current) ==
    LET next  == NextDate([current EXCEPT !.ms = CutoffMs])
        delay == Max(MIN_DELAY_MS, DiffMs(current, next))
    IN  IF delay <= MS_PER_DAY THEN AddMs(current, delay) ELSE next

\* scheduleNext without Math.max(250, ...): the delay is the distance to
\* the cutoff
scheduleNextNoFloor(current) ==
    LET atCutoff == [current EXCEPT !.ms = CutoffMs]
        next     == IF current.ms >= CutoffMs THEN NextDate(atCutoff) ELSE atCutoff
    IN  AddMs(current, DiffMs(current, next))

\* scheduleNext: the deadline of the timeout armed at moment `current`
scheduleNext(current) ==
    LET atCutoff == [current EXCEPT !.ms = CutoffMs]
        next     == IF current.ms >= CutoffMs THEN NextDate(atCutoff) ELSE atCutoff
        delay    == Max(MIN_DELAY_MS, DiffMs(current, next))
    IN  AddMs(current, delay)

----------------------------------------------------------------------------
(* safeEval.  An expression is its text, a sequence of one-character
   strings.  `new Function('vars', 'with(vars){ return (' + s + '); }')` is
   modelled by a lexer, a parser and an evaluator of the JavaScript that the
   expressions of the exploration are written in: decimal literals,
   identifiers, the call of `import`, unary and binary + - * /, parentheses,
   member access and calls.  InFragment says which texts that covers. *)

Digits  == {"0", "1", "2", "3", "4", "5", "6", "7", "8", "9"}
Letters == {"a", "b", "c", "d", "e", "f", "g", "h", "i", "j", "k", "l", "m", "n", "o", "p", "q", "r", "s", "t", "u", "v", "w", "x", "y", "z",
            "A", "B", "C", "D", "E", "F", "G", "H", "I", "J", "K", "L", "M", "N", "O", "P", "Q", "R", "S", "T", "U", "V", "W", "X", "Y", "Z"}
Whitespace == {" ", "\t", "\n", "\r"}
IdStart == Letters \cup {"_"}
IdPart  == IdStart \cup Digits

\* the character class of the regular expression /^[0-9a-zA-Z_+\-*/().\s]*$/
WhitelistChars == Digits \cup Letters \cup {"_", "+", "-", "*", "/", "(", ")", "."} \cup Whitespace

\* String.prototype.trim
RECURSIVE trim(_)
trim(cs) ==
    IF cs = << >> THEN cs
    ELSE IF Head(cs) \in Whitespace THEN trim(Tail(cs))
    ELSE IF cs[Len(cs)] \in Whitespace THEN trim(SubSeq(cs, 1, Len(cs) - 1))
    ELSE cs

\* the whitelist accepts everything: the test is skipped
PassesWhitelistAlways(s) == TRUE

\* /^[0-9a-zA-Z_+\-*/().\s]*$/.test(s)
PassesWhitelist(s) == \A i \in 1..Len(s) : s[i] \in WhitelistChars

(* JavaScript values.  A finite number is the fraction n/d in lowest terms,
   d > 0.  The sign of a zero is not kept: it decides only between Infinity
   and -Infinity. *)
GCD(a, b) ==
    LET RECURSIVE G(_, _)
        G(x, y) == IF y = 0 THEN x ELSE G(y, x % y)
    IN  G(a, b)
Abs(x)  == IF x < 0 THEN -x ELSE x
Sign(x) == IF x < 0 THEN -1 ELSE 1

Num(n, d) ==
    LET g == GCD(Abs(n), Abs(d))
    IN  [k |-> "number", n |-> (Sign(d) * n) \div g, d |-> Abs(d) \div g]
Infinite(sign) == [k |-> "infinity", n |-> sign, d |-> 1]
NaN        == [k |-> "NaN", n |-> 0, d |-> 1]
Undefined  == [k |-> "undefined", n |-> 0, d |-> 1]
Function   == [k |-> "function", n |-> 0, d |-> 1]
Promise    == [k |-> "object", n |-> 0, d |-> 1]
String     == [k |-> "string", n |-> 0, d |-> 1]
Null       == [k |-> "null", n |-> 0, d |-> 1]

\* ToNumber: undefined, a function, a promise and the strings they are
\* concatenated into are all NaN
ToNumber(v) == IF v.k \in {"number", "infinity", "NaN"} THEN v ELSE NaN

Negate(v) ==
    IF v.k = "number" THEN Num(-v.n, v.d)
    ELSE IF v.k = "infinity" THEN Infinite(-v.n)
    ELSE NaN

NumAdd(a, b) ==
    IF a.k = "NaN" \/ b.k = "NaN" THEN NaN
    ELSE IF a.k = "infinity" /\ b.k = "infinity" THEN (IF a.n = b.n THEN a ELSE NaN)
    ELSE IF a.k = "infinity" THEN a
    ELSE IF b.k = "infinity" THEN b
    ELSE Num(a.n * b.d + b.n * a.d, a.d * b.d)

NumMul(a, b) ==
    IF a.k = "NaN" \/ b.k = "NaN" THEN NaN
    ELSE IF a.k = "infinity" \/ b.k = "infinity"
         THEN (IF a.n = 0 \/ b.n = 0 THEN NaN ELSE Infinite(Sign(a.n) * Sign(b.n)))
    ELSE Num(a.n * b.n, a.d * b.d)

NumDiv(a, b) ==
    IF a.k = "NaN" \/ b.k = "NaN" THEN NaN
    ELSE IF a.k = "infinity" THEN (IF b.k = "infinity" THEN NaN ELSE Infinite(Sign(a.n) * Sign(b.n)))
    ELSE IF b.k = "infinity" THEN Num(0, 1)
    ELSE IF b.n = 0 THEN (IF a.n = 0 THEN NaN ELSE Infinite(Sign(a.n)))
    ELSE Num(a.n * b.d, a.d * b.n)

\* the binary operators; + concatenates when an operand is not a primitive
\* number or undefined
Arith(o, a, b) ==
    IF o = "+" THEN
        IF a.k \in {"function", "object", "string"} \/ b.k \in {"function", "object", "string"}
        THEN String
        ELSE NumAdd(ToNumber(a), ToNumber(b))
    ELSE IF o = "-" THEN NumAdd(ToNumber(a), Negate(ToNumber(b)))
    ELSE IF o = "*" THEN NumMul(ToNumber(a), ToNumber(b))
    ELSE NumDiv(ToNumber(a), ToNumber(b))

\* typeof out === 'number' && Number.isFinite(out)
IsFiniteNumber(v) == v.k = "number"

(* The names of the exploration *)
Lx_manpower    == <<"m", "a", "n", "p", "o", "w", "e", "r">>
Lx_daysPerWeek == <<"d", "a", "y", "s", "P", "e", "r", "W", "e", "e", "k">>
Lx_unknownVar  == <<"u", "n", "k", "n", "o", "w", "n", "V", "a", "r">>
Lx_innerWidth  == <<"i", "n", "n", "e", "r", "W", "i", "d", "t", "h">>
Lx_print       == <<"p", "r", "i", "n", "t">>
Lx_import      == <<"i", "m", "p", "o", "r", "t">>

(* The lexer *)
RECURSIVE RunEnd(_, _, _)
\* the last index of the run of characters of `class` that starts at i
RunEnd(cs, i, class) ==
    IF i + 1 <= Len(cs) /\ cs[i + 1] \in class THEN RunEnd(cs, i + 1, class) ELSE i

DigitVal(c) == CHOOSE v \in 0..9 : <<"0", "1", "2", "3", "4", "5", "6", "7", "8", "9">>[v + 1] = c

RECURSIVE DigitsVal(_)
DigitsVal(ds) == IF ds = << >> THEN 0 ELSE 10 * DigitsVal(SubSeq(ds, 1, Len(ds) - 1)) + DigitVal(ds[Len(ds)])

RECURSIVE Pow10(_)
Pow10(e) == IF e = 0 THEN 1 ELSE 10 * Pow10(e - 1)

Token(t, chars, v) == [t |-> t, s |-> chars, v |-> v]

\* the decimal literal that starts at i: digits, an optional point, digits;
\* [end, tok]
NumberAt(cs, i) ==
    LET intEnd  == IF cs[i] \in Digits THEN RunEnd(cs, i, Digits) ELSE i - 1
        hasDot  == intEnd + 1 <= Len(cs) /\ cs[intEnd + 1] = "."
        fracEnd == IF hasDot /\ intEnd + 2 <= Len(cs) /\ cs[intEnd + 2] \in Digits
                   THEN RunEnd(cs, intEnd + 2, Digits)
                   ELSE IF hasDot THEN intEnd + 1 ELSE intEnd
        ds      == SubSeq(cs, i, intEnd) \o SubSeq(cs, intEnd + 2, fracEnd)
        value   == Num(DigitsVal(ds), Pow10(IF hasDot THEN fracEnd - intEnd - 1 ELSE 0))
        glued   == fracEnd + 1 <= Len(cs) /\ cs[fracEnd + 1] \in IdPart
    IN  [end |-> fracEnd,
         tok |-> IF glued THEN Token("bad", SubSeq(cs, i, fracEnd), NaN)
                 ELSE Token("number", SubSeq(cs, i, fracEnd), value)]

RECURSIVE Lex(_, _, _)
Lex(cs, i, acc) ==
    IF i > Len(cs) THEN acc
    ELSE IF cs[i] \in Whitespace THEN Lex(cs, i + 1, acc)
    ELSE IF cs[i] \in IdStart THEN
        LET j == RunEnd(cs, i, IdPart)
        IN  Lex(cs, j + 1, Append(acc, Token("name", SubSeq(cs, i, j), NaN)))
    ELSE IF cs[i] \in Digits \/ (cs[i] = "." /\ i + 1 <= Len(cs) /\ cs[i + 1] \in Digits) THEN
        LET nm == NumberAt(cs, i)
        IN  Lex(cs, nm.end + 1, Append(acc, nm.tok))
    ELSE IF cs[i] \in {"+", "-", "*", "/", "(", ")", "."} THEN
        Lex(cs, i + 1, Append(acc, Token("punct", <<cs[i]>>, NaN)))
    ELSE Lex(cs, i + 1, Append(acc, Token("bad", <<cs[i]>>, NaN)))

\* The texts the lexer, parser and evaluator are exact for: no ++ -- ** // /*
\* (two operator characters side by side), no / where an operand is expected
\* (a regular expression literal), no digit followed by a letter that
\* continues a literal (exponent, radix prefix, BigInt suffix, separator), no
\* literal of several digits that starts with 0 (legacy octal).  Identifiers
\* other than the six names above are names nothing defines.
InFragment(cs) ==
    LET toks == Lex(<<"(">> \o cs \o <<")">>, 1, << >>)
    IN  /\ \A i \in 1..(Len(cs) - 1) :
              /\ <<cs[i], cs[i + 1]>> \notin {<<"+", "+">>, <<"-", "-">>, <<"*", "*">>, <<"/", "/">>, <<"/", "*">>}
              /\ ~(cs[i] \in Digits /\ cs[i + 1] \in {"e", "E", "x", "X", "b", "B", "o", "O", "n", "_"})
              /\ ~(cs[i] = "0" /\ cs[i + 1] \in Digits /\ (i = 1 \/ cs[i - 1] \notin (Digits \cup {"."})))
        /\ \A p \in 2..Len(toks) :
              (toks[p].t = "punct" /\ toks[p].s = <<"/">>) =>
                  (toks[p - 1].t \in {"number", "name"} \/ toks[p - 1].s = <<")">>)

(* The parser: [ok, ast, pos], pos the index of the next token *)
Tok(toks, p) == IF p <= Len(toks) THEN toks[p] ELSE Token("end", << >>, NaN)
IsPunct(tk, c) == tk.t = "punct" /\ tk.s = <<c>>
NoAst == [op |-> "none"]
Fail == [ok |-> FALSE, ast |-> NoAst, pos |-> 0]
Ok(ast, pos) == [ok |-> TRUE, ast |-> ast, pos |-> pos]

RECURSIVE Parse(_, _, _, _)
\* Parse(rule, toks, p, left): the grammar rule applied at token p; the
\* rules that continue an expression take what was parsed so far as `left`
\*   Additive       ::= Multiplicative AdditiveRest
\*   AdditiveRest   ::= (("+" | "-") Multiplicative)*
\*   Multiplicative ::= Unary MultiplicativeRest
\*   MultiplicativeRest ::= (("*" | "/") Unary)*
\*   Unary          ::= ("+" | "-") Unary | Call
\*   Call           ::= Primary CallRest
\*   CallRest       ::= ("." name | "(" ")" | "(" Additive ")")*
\*   Primary        ::= number | name | "import" "(" Additive ")" | "(" Additive ")"
Parse(rule, toks, p, left) ==
    LET tk == Tok(toks, p)
    IN  CASE rule = "Primary" ->
              IF tk.t = "number" THEN Ok([op |-> "number", v |-> tk.v], p + 1)
              ELSE IF tk.t = "name" /\ tk.s # Lx_import THEN Ok([op |-> "name", name |-> tk.s], p + 1)
              ELSE IF IsPunct(tk, "(") \/ (tk.t = "name" /\ IsPunct(Tok(toks, p + 1), "(")) THEN
                  LET open == IF tk.t = "name" THEN p + 1 ELSE p
                      e    == Parse("Additive", toks, open + 1, NoAst)
                  IN  IF e.ok /\ IsPunct(Tok(toks, e.pos), ")")
                      THEN Ok(IF tk.t = "name" THEN [op |-> "import", a |-> e.ast] ELSE e.ast, e.pos + 1)
                      ELSE Fail
              ELSE Fail
          [] rule = "CallRest" ->
              IF IsPunct(tk, ".") THEN
                  IF Tok(toks, p + 1).t = "name"
                  THEN Parse("CallRest", toks, p + 2, [op |-> "member", e |-> left, name |-> Tok(toks, p + 1).s])
                  ELSE Fail
              ELSE IF IsPunct(tk, "(") /\ IsPunct(Tok(toks, p + 1), ")") THEN
                  Parse("CallRest", toks, p + 2, [op |-> "call", f |-> left, a |-> << >>])
              ELSE IF IsPunct(tk, "(") THEN
                  LET a == Parse("Additive", toks, p + 1, NoAst)
                  IN  IF a.ok /\ IsPunct(Tok(toks, a.pos), ")")
                      THEN Parse("CallRest", toks, a.pos + 1, [op |-> "call", f |-> left, a |-> <<a.ast>>])
                      ELSE Fail
              ELSE Ok(left, p)
          [] rule = "Call" ->
              LET pr == Parse("Primary", toks, p, NoAst)
              IN  IF pr.ok THEN Parse("CallRest", toks, pr.pos, pr.ast) ELSE Fail
          [] rule = "Unary" ->
              IF IsPunct(tk, "+") \/ IsPunct(tk, "-") THEN
                  LET e == Parse("Unary", toks, p + 1, NoAst)
                  IN  IF e.ok THEN Ok([op |-> "unary", o |-> tk.s[1], e |-> e.ast], e.pos) ELSE Fail
              ELSE Parse("Call", toks, p, NoAst)
          [] rule = "MultiplicativeRest" ->
              IF IsPunct(tk, "*") \/ IsPunct(tk, "/") THEN
                  LET r == Parse("Unary", toks, p + 1, NoAst)
                  IN  IF r.ok
                      THEN Parse("MultiplicativeRest", toks, r.pos,
                                 [op |-> "binary", o |-> tk.s[1], l |-> left, r |-> r.ast])
                      ELSE Fail
              ELSE Ok(left, p)
          [] rule = "Multiplicative" ->
              LET l == Parse("Unary", toks, p, NoAst)
              IN  IF l.ok THEN Parse("MultiplicativeRest", toks, l.pos, l.ast) ELSE Fail
          [] rule = "AdditiveRest" ->
              IF IsPunct(tk, "+") \/ IsPunct(tk, "-") THEN
                  LET r == Parse("Multiplicative", toks, p + 1, NoAst)
                  IN  IF r.ok
                      THEN Parse("AdditiveRest", toks, r.pos,
                                 [op |-> "binary", o |-> tk.s[1], l |-> left, r |-> r.ast])
                      ELSE Fail
              ELSE Ok(left, p)
          [] rule = "Additive" ->
              LET l == Parse("Multiplicative", toks, p, NoAst)
              IN  IF l.ok THEN Parse("AdditiveRest", toks, l.pos, l.ast) ELSE Fail

(* The evaluator: [thrown, v, env], env the state outside after the
   evaluation *)
Done(v, e)  == [thrown |-> FALSE, v |-> v, env |-> e]
Throw(e)    == [thrown |-> TRUE, v |-> Undefined, env |-> e]

\* An identifier inside with(vars){...}: a property of vars, else a global of
\* the window: innerWidth is a number, print a function; any other name of
\* the exploration is a ReferenceError
Resolve(name, vs, e) ==
    IF name \in DOMAIN vs THEN Done(Num(vs[name], 1), e)
    ELSE IF name = Lx_innerWidth THEN Done(Num(e.innerWidth, 1), e)
    ELSE IF name = Lx_print THEN Done(Function, e)
    ELSE Throw(e)

RECURSIVE Eval(_, _, _)
Eval(ast, vs, e) ==
    CASE ast.op = "number" -> Done(ast.v, e)
      [] ast.op = "name"   -> Resolve(ast.name, vs, e)
      [] ast.op = "unary"  ->
            LET x == Eval(ast.e, vs, e)
            IN  IF x.thrown THEN x
                ELSE Done(IF ast.o = "-" THEN Negate(ToNumber(x.v)) ELSE ToNumber(x.v), x.env)
      [] ast.op = "binary" ->
            LET l == Eval(ast.l, vs, e)
            IN  IF l.thrown THEN l
                ELSE LET r == Eval(ast.r, vs, l.env)
                     IN  IF r.thrown THEN r ELSE Done(Arith(ast.o, l.v, r.v), r.env)
      [] ast.op = "member" ->
            \* a property none of the values has; of undefined, a TypeError
            LET b == Eval(ast.e, vs, e)
            IN  IF b.thrown THEN b
                ELSE IF b.v.k = "undefined" THEN Throw(b.env) ELSE Done(Undefined, b.env)
      [] ast.op = "call"   ->
            \* window.print() opens the print dialog and returns undefined;
            \* calling anything that is no function is a TypeError
            LET f == Eval(ast.f, vs, e)
            IN  IF f.thrown THEN f
                ELSE LET a == IF Len(ast.a) = 0 THEN Done(Undefined, f.env) ELSE Eval(ast.a[1], vs, f.env)
                     IN  IF a.thrown THEN a
                         ELSE IF f.v.k = "function"
                              THEN Done(Undefined, [a.env EXCEPT !.printed = TRUE])
                              ELSE Throw(a.env)
      [] ast.op = "import" ->
            \* import(x) starts loading the module x names and returns a promise
            LET a == Eval(ast.a, vs, e)
            IN  IF a.thrown THEN a ELSE Done(Promise, [a.env EXCEPT !.imported = TRUE])

\* new Function('vars', `with(vars){ return (${s}); }`)(vars): a SyntaxError
\* is thrown before anything runs
RunFunction(s, vs, e) ==
    LET toks == Lex(<<"(">> \o s \o <<")">>, 1, << >>)
        pr   == Parse("Additive", toks, 1, NoAst)
    IN  IF (\E p \in 1..Len(toks) : toks[p].t = "bad") \/ ~pr.ok \/ pr.pos # Len(toks) + 1
        THEN Throw(e)
        ELSE Eval(pr.ast, vs, e)

Exception == [k |-> "exception", n |-> 0, d |-> 1]

\* the try block without its catch: what was thrown reaches the caller
ReturnedUncaught(r) ==
    IF r.thrown THEN Exception ELSE IF IsFiniteNumber(r.v) THEN r.v ELSE Null

\* the try block: a finite number is returned, everything else and every
\* exception is null
Returned(r) ==
    IF r.thrown THEN Null ELSE IF IsFiniteNumber(r.v) THEN r.v ELSE Null

\* safeEval(expr, vars) in environment e: [value, reached, env], reached
\* saying that the call got to `new Function`
safeEval(ex, vs, e) ==
    LET s == trim(ex)
    IN  IF s = << >> THEN [value |-> Null, reached |-> FALSE, env |-> e]
        ELSE IF ~PassesWhitelist(s) THEN [value |-> Null, reached |-> FALSE, env |-> e]
        ELSE LET r == RunFunction(s, vs, e)
             IN  [value |-> Returned(r), reached |-> TRUE, env |-> r.env]

----------------------------------------------------------------------------
(* Inputs of the exploration: the moments the clock starts at and is sampled
   at, and the documents localStorage may hold when the page opens *)

At(y, m, d, h, mi, s, milli) ==
    [year |-> y, month |-> m, date |-> d,
     ms |-> h * MS_PER_HOUR + mi * MS_PER_MINUTE + s * 1000 + milli]

StartMoments ==
    { At(2026, 2, 15, 10, 0, 0, 0),       \* 2026-03-15 10:00, before the cutoff
      At(2026, 2, 15, 15, 59, 59, 900),   \* 100 ms before the cutoff
      At(2026, 11, 31, 10, 0, 0, 0) }     \* 2026-12-31, the last day of the year

SampleMs == { 10 * MS_PER_HOUR, CutoffMs - 100, CutoffMs }

YearKeys == {2026, 2027}

WithStatus(data, m, day, status) == [data EXCEPT ![m].days[day - 1].status = status]

\* a stored calendar of year y that passes isValidMonthlyData: a near miss on
\* March 10, an accident on March 14, a near miss on December 30, the rest
\* never decided
StoredCalendar(y) ==
    WithStatus(WithStatus(WithStatus(createYearData(y), 2, 10, "near_miss"),
                          2, 14, "accident"), 11, 30, "near_miss")

\* a stored calendar that fails isValidMonthlyData: only 11 months
ShortCalendar(y) == [m \in 0..10 |-> createYearData(y)[m]]

Absent  == [kind |-> "absent"]     \* getItem returns null
Corrupt == [kind |-> "corrupt"]    \* getItem throws, or JSON.parse throws
\* a stored document whose only property is monthlyData
Doc(data) ==
    [kind |-> "doc", monthlyData |-> data, announcements |-> JMissing, metrics |-> JMissing,
     posterTop |-> JMissing, posterTopZoom |-> JMissing, posterBottomZoom |-> JMissing,
     policyZoom |-> JMissing, targetVars |-> JMissing]

\* a stored calendar that passes isValidMonthlyData although the status of
\* its March 16 is none of the four: the string "done"
ForeignStatusCalendar(y) == WithStatus(StoredCalendar(y), 2, 16, "done")

StoredDocs(y) ==
    { Absent, Corrupt, Doc(JArray(StoredCalendar(y))), Doc(JArray(ShortCalendar(y))),
      Doc(JArray(ForeignStatusCalendar(y))) }

----------------------------------------------------------------------------
(* The state beside the calendar *)

\* clamp with Math.max only: no upper end
clampNoMax(n, min, max) == Max(min, n)

clamp(n, min, max) == Min(max, Max(min, n))

\* an announcement is {id, text}, a metric {id, label, value, unit}
DEFAULT_ANNOUNCEMENTS ==
    << [id |-> "1", text |-> "PPE Audit"], [id |-> "2", text |-> "Emergency Drill"] >>

DEFAULT_METRICS ==
    << [id |-> "m1", label |-> "First Aid",  value |-> "0",   unit |-> "case"],
       [id |-> "m2", label |-> "Non-Absent", value |-> "0",   unit |-> "case"],
       [id |-> "m3", label |-> "Absent",     value |-> "0",   unit |-> "case"],
       [id |-> "m4", label |-> "Fire",       value |-> "0",   unit |-> "case"],
       [id |-> "m5", label |-> "IFR",        value |-> "0",   unit |-> ""],
       [id |-> "m6", label |-> "ISR",        value |-> "1.2", unit |-> ""] >>

DEFAULT_POSTER_TOP == "/company-policy-poster.png"

DEFAULT_TARGET_VARS ==
    [manpower |-> 675, daysPerWeek |-> 6, hoursPerDay |-> 10,
     workingDaysYear |-> 250, workingDaysSoFar |-> 0]

\* the useState initialisers
InitialSettings ==
    [announcements    |-> DEFAULT_ANNOUNCEMENTS,
     metrics          |-> DEFAULT_METRICS,
     posterTop        |-> DEFAULT_POSTER_TOP,
     posterTopZoom    |-> ZOOM_RESET,
     posterBottomZoom |-> ZOOM_RESET,
     policyZoom       |-> ZOOM_RESET,
     targetVars       |-> DEFAULT_TARGET_VARS,
     editMetrics      |-> FALSE,
     metricsDraft     |-> << >>]

ZoomFields == {"posterTopZoom", "posterBottomZoom", "policyZoom"}

\* Array.isArray(x) && x.length ? x : dflt
NonEmptyArrayOr(x, dflt) == IF IsArray(x) /\ Length(x.items) # 0 THEN x.items ELSE dflt

\* typeof x === 'number' ? clamp(x, 0.5, 2.5) : 1
LoadedZoom(x) == IF x.type = "number" THEN clamp(x.n, ZOOM_MIN, ZOOM_MAX) ELSE ZOOM_RESET

\* x && typeof x === 'object' ? { ...DEFAULT_TARGET_VARS, ...x } : DEFAULT_TARGET_VARS
\* (of the stored objects, none of the documents explored holds an array here)
LoadedTargetVars(x) ==
    IF x.type = "object"
    THEN [k \in DOMAIN DEFAULT_TARGET_VARS \cup DOMAIN x.fields |->
            IF k \in DOMAIN x.fields THEN x.fields[k] ELSE DEFAULT_TARGET_VARS[k]]
    ELSE DEFAULT_TARGET_VARS

\* the load effect that gives up on the whole document, calendar included,
\* when its announcements are not an array
LoadedMonthlyAllOrNothing(doc, year, t) ==
    IF doc.kind = "doc" /\ isValidMonthlyData(doc.monthlyData, year) /\ IsArray(doc.announcements)
    THEN applyAutoSafe(doc.monthlyData.items, t, year)
    ELSE applyAutoSafe(createYearData(year), t, year)

\* what the load effect makes of the state s beside the calendar: nothing
\* when there is no document or the read or the parse throws, else one
\* setter per property
LoadedSettings(doc, s) ==
    IF doc.kind # "doc" THEN s
    ELSE [s EXCEPT
            !.announcements    = NonEmptyArrayOr(doc.announcements, DEFAULT_ANNOUNCEMENTS),
            !.posterTop        = IF doc.posterTop.type = "string" THEN doc.posterTop.s
                                 ELSE DEFAULT_POSTER_TOP,
            !.posterTopZoom    = LoadedZoom(doc.posterTopZoom),
            !.posterBottomZoom = LoadedZoom(doc.posterBottomZoom),
            !.policyZoom       = LoadedZoom(doc.policyZoom),
            !.targetVars       = LoadedTargetVars(doc.targetVars),
            !.metrics          = NonEmptyArrayOr(doc.metrics, DEFAULT_METRICS)]

\* the payload of the persist effect
Payload(data, s) ==
    [monthlyData |-> data, announcements |-> s.announcements, metrics |-> s.metrics,
     posterTop |-> s.posterTop, posterTopZoom |-> s.posterTopZoom,
     posterBottomZoom |-> s.posterBottomZoom, policyZoom |-> s.policyZoom,
     targetVars |-> s.targetVars]

\* JSON.stringify(payload), as getItem and JSON.parse give it back
Stored(payload) ==
    [kind |-> "doc",
     monthlyData      |-> JArray(payload.monthlyData),
     announcements    |-> JArray(payload.announcements),
     metrics          |-> JArray(payload.metrics),
     posterTop        |-> IF payload.posterTop = null THEN JNull
                          ELSE JText(payload.posterTop),
     posterTopZoom    |-> JNumber(payload.posterTopZoom),
     posterBottomZoom |-> JNumber(payload.posterBottomZoom),
     policyZoom       |-> JNumber(payload.policyZoom),
     targetVars       |-> JObject(payload.targetVars)]

----------------------------------------------------------------------------
(* The dashboard *)

NoCall == args = [fn |-> "none"] /\ ret = [calls |-> 0]

NoEval ==
    /\ expr = << >> /\ evars = [name \in {} |-> 0]
    /\ env = [innerWidth |-> 1280, printed |-> FALSE, imported |-> FALSE]
    /\ result = Null /\ prevResult = Null /\ evalCount = 0 /\ reachedEval = FALSE

Init ==
    /\ now \in StartMoments
    /\ mounted = FALSE
    /\ currentYear = now.year
    /\ displayMonth = now.month
    /\ monthlyData = createYearData(now.year)
    /\ rendered = [monthlyData |-> createYearData(now.year), displayMonth |-> now.month]
    /\ renderPending = FALSE
    /\ timer = << >>
    /\ writeTimer = {}
    /\ \E d \in StoredDocs(now.year) :
          storage = [y \in YearKeys |-> IF y = now.year THEN d ELSE Absent]
    /\ settings = InitialSettings
    /\ lastOp = "init"
    /\ ticks = 0 /\ events = 0
    /\ NoCall
    /\ NoEval

\* the persist effect without its cleanup: the previous timeout stays pending
ArmWriteNoClear(key, payload) ==
    writeTimer \cup {[deadline |-> AddMs(now, DEBOUNCE_MS), key |-> key, payload |-> payload]}

\* the persist effect: clear the previous timeout, arm a new one with the
\* payload of this render
ArmWrite(key, payload) == {[deadline |-> AddMs(now, DEBOUNCE_MS), key |-> key, payload |-> payload]}

\* the calendar the load effect hands to setMonthlyData
\* the load effect that backfills a fresh calendar only: a stored calendar
\* is taken as it is
LoadedMonthlyNoBackfill(doc, year, t) ==
    IF doc.kind = "doc" /\ isValidMonthlyData(doc.monthlyData, year)
    THEN doc.monthlyData.items
    ELSE applyAutoSafe(createYearData(year), t, year)

\* the load effect without its try and catch: a read or a parse that throws
\* ends the effect, and the calendar stays the one of the first render
LoadedMonthlyNoCatch(doc, year, t) ==
    IF doc.kind = "corrupt" THEN createYearData(year)
    ELSE IF doc.kind = "doc" /\ isValidMonthlyData(doc.monthlyData, year)
    THEN applyAutoSafe(doc.monthlyData.items, t, year)
    ELSE applyAutoSafe(createYearData(year), t, year)

\* the load effect without isValidMonthlyData: whatever is stored is used
LoadedMonthlyUnvalidated(doc, year, t) ==
    IF doc.kind = "doc" /\ IsArray(doc.monthlyData)
    THEN applyAutoSafe(doc.monthlyData.items, t, year)
    ELSE applyAutoSafe(createYearData(year), t, year)

LoadedMonthly(doc, year, t) ==
    IF doc.kind = "doc" /\ isValidMonthlyData(doc.monthlyData, year)
    THEN applyAutoSafe(doc.monthlyData.items, t, year)
    ELSE applyAutoSafe(createYearData(year), t, year)

\* Mounting: the first render with the useState initialisers, then the
\* effects of that render in source order: scheduler, load, persist
Mount ==
    /\ ~mounted
    /\ mounted' = TRUE
    /\ currentYear' = now.year
    /\ displayMonth' = now.month
    /\ rendered' = [monthlyData |-> createYearData(now.year), displayMonth |-> now.month]
    /\ timer' = Append(timer, scheduleNext(now))
    /\ monthlyData' = LoadedMonthly(storage[now.year], now.year, now)
    /\ settings' = LoadedSettings(storage[now.year], InitialSettings)
    /\ renderPending' = TRUE
    /\ writeTimer' = ArmWrite(now.year, Payload(createYearData(now.year), InitialSettings))
    /\ lastOp' = "Mount"
    /\ UNCHANGED <<now, storage, ticks, events, callVars, evalVars>>

\* A re-render whose persist effect runs on mount only: the timeout armed
\* by the first render, with the useState initialisers, stays pending
RenderKeepsFirstWrite ==
    /\ mounted
    /\ renderPending
    /\ rendered' = [monthlyData |-> monthlyData, displayMonth |-> displayMonth]
    /\ renderPending' = FALSE
    /\ writeTimer' = writeTimer
    /\ lastOp' = "Render"
    /\ UNCHANGED <<now, mounted, currentYear, displayMonth, monthlyData, timer, storage, settings,
                   ticks, events, callVars, evalVars>>

\* A re-render after state updates made outside an event handler, and the
\* persist effect that this render re-runs
Render ==
    /\ mounted
    /\ renderPending
    /\ rendered' = [monthlyData |-> monthlyData, displayMonth |-> displayMonth]
    /\ renderPending' = FALSE
    /\ writeTimer' = ArmWrite(currentYear, Payload(monthlyData, settings))
    /\ lastOp' = "Render"
    /\ UNCHANGED <<now, mounted, currentYear, displayMonth, monthlyData, timer, storage, settings,
                   ticks, events, callVars, evalVars>>

\* The rollover timeout fires, mounted or not, when it is pending and due:
\* applyAutoSafe at the moment of the fire, then scheduleNext.  React drops
\* the state update of a component that is no longer mounted.
TimerFire ==
    /\ \E i \in DOMAIN timer :
          /\ MomentLE(timer[i], now)
          /\ timer' = Append(SubSeq(timer, 1, i - 1) \o SubSeq(timer, i + 1, Len(timer)),
                             scheduleNext(now))
    /\ monthlyData' = IF mounted THEN applyAutoSafe(monthlyData, now, currentYear) ELSE monthlyData
    /\ renderPending' = (renderPending \/ monthlyData' # monthlyData)
    /\ lastOp' = "TimerFire"
    /\ UNCHANGED <<now, mounted, currentYear, displayMonth, rendered, writeTimer, storage, settings,
                   ticks, events, callVars, evalVars>>

\* The debounce timeout fires, mounted or not, when it is pending and due:
\* localStorage.setItem of the payload
WriteFire ==
    /\ \E w \in writeTimer :
          /\ MomentLE(w.deadline, now)
          /\ storage' = [storage EXCEPT ![w.key] = Stored(w.payload)]
          /\ writeTimer' = writeTimer \ {w}
    /\ lastOp' = "WriteFire"
    /\ UNCHANGED <<now, mounted, currentYear, displayMonth, monthlyData, rendered,
                   renderPending, timer, settings, ticks, events, callVars, evalVars>>

\* the day cells the exploration clicks: yesterday's, today's and
\* tomorrow's day-of-month, where the rendered month has them (gridCells)
ClickDays ==
    { d \in {now.date - 1, now.date, now.date + 1} :
        d >= 1 /\ d <= DaysInMonth(currentYear, rendered.displayMonth) }

\* A click under a persist effect that does not depend on monthlyData: the
\* effect does not run again, no write is armed
ClickEffectNoPersist(day) ==
    /\ mounted
    /\ monthlyData' = cycleDayStatus(monthlyData, rendered.monthlyData, rendered.displayMonth, day)
    /\ rendered' = [monthlyData |-> monthlyData', displayMonth |-> displayMonth]
    /\ renderPending' = FALSE
    /\ writeTimer' = writeTimer
    /\ lastOp' = "Click"
    /\ UNCHANGED <<now, mounted, currentYear, displayMonth, timer, storage, settings,
                   ticks, evalVars>>

\* A click on a day cell: cycleDayStatus with the values the handler closed
\* over, applied to the queued state; React renders a click synchronously
ClickEffect(day) ==
    /\ mounted
    /\ monthlyData' = cycleDayStatus(monthlyData, rendered.monthlyData, rendered.displayMonth, day)
    /\ rendered' = [monthlyData |-> monthlyData', displayMonth |-> displayMonth]
    /\ renderPending' = FALSE
    /\ writeTimer' = ArmWrite(currentYear, Payload(monthlyData', settings))
    /\ lastOp' = "Click"
    /\ UNCHANGED <<now, mounted, currentYear, displayMonth, timer, storage, settings,
                   ticks, evalVars>>

Click(day) ==
    /\ events < MaxEvents
    /\ events' = events + 1
    /\ ClickEffect(day)
    /\ UNCHANGED callVars

\* The month buttons: setDisplayMonth((m) => (m + 11) % 12) and (m + 1) % 12
Navigate(step) ==
    /\ mounted
    /\ events < MaxEvents
    /\ events' = events + 1
    /\ displayMonth' = (displayMonth + step) % 12
    /\ rendered' = [monthlyData |-> monthlyData, displayMonth |-> displayMonth']
    /\ renderPending' = FALSE
    /\ writeTimer' = IF renderPending THEN ArmWrite(currentYear, Payload(monthlyData, settings))
                     ELSE writeTimer
    /\ lastOp' = "Navigate"
    /\ UNCHANGED <<now, mounted, currentYear, monthlyData, timer, storage, settings,
                   ticks, callVars, evalVars>>

PrevMonth == Navigate(11)
NextMonth == Navigate(1)

\* Unmounting without the cleanup of the persist effect: the debounce
\* timeout stays pending
UnmountKeepsWrite ==
    /\ mounted
    /\ events < MaxEvents
    /\ events' = events + 1
    /\ mounted' = FALSE
    /\ timer' = SubSeq(timer, 1, Len(timer) - 1)
    /\ renderPending' = FALSE
    /\ lastOp' = "Unmount"
    /\ UNCHANGED <<now, currentYear, displayMonth, monthlyData, rendered, storage, settings,
                   writeTimer, ticks, callVars, evalVars>>

\* Unmounting without the cleanup of the scheduler effect: the rollover
\* timeout stays pending
UnmountKeepsTimer ==
    /\ mounted
    /\ events < MaxEvents
    /\ events' = events + 1
    /\ mounted' = FALSE
    /\ writeTimer' = {}
    /\ renderPending' = FALSE
    /\ lastOp' = "Unmount"
    /\ UNCHANGED <<now, currentYear, displayMonth, monthlyData, rendered, storage, settings,
                   timer, ticks, callVars, evalVars>>

\* Unmounting runs the cleanups of the scheduler and persist effects: the
\* scheduler's clears the timeout its `timer` variable holds, the last armed
Unmount ==
    /\ mounted
    /\ events < MaxEvents
    /\ events' = events + 1
    /\ mounted' = FALSE
    /\ timer' = SubSeq(timer, 1, Len(timer) - 1)
    /\ writeTimer' = {}
    /\ renderPending' = FALSE
    /\ lastOp' = "Unmount"
    /\ UNCHANGED <<now, currentYear, displayMonth, monthlyData, rendered, storage, settings,
                   ticks, callVars, evalVars>>

\* the pending deadlines
Deadlines ==
    { timer[i] : i \in DOMAIN timer } \cup { w.deadline : w \in writeTimer }

\* the moments the clock may show next: the sampled times of today and
\* tomorrow and the pending deadlines
Upcoming ==
    { t \in ({ [now EXCEPT !.ms = s] : s \in SampleMs }
             \cup { [NextDate(now) EXCEPT !.ms = s] : s \in SampleMs }
             \cup Deadlines) : MomentLT(now, t) }

\* Time passes, up to the next sampled moment or deadline.  A due timeout runs
\* and a queued render completes before the clock moves on.
Tick ==
    /\ ticks < MaxTicks
    /\ ~renderPending
    /\ \A d \in Deadlines : MomentLT(now, d)
    /\ \E t \in Upcoming :
          /\ \A u \in Upcoming : MomentLE(t, u)
          /\ now' = t
    /\ ticks' = ticks + 1
    /\ lastOp' = "Tick"
    /\ UNCHANGED <<mounted, currentYear, displayMonth, monthlyData, rendered, renderPending,
                   timer, writeTimer, storage, settings, events, callVars, evalVars>>

Next ==
    \/ Mount
    \/ Render
    \/ TimerFire
    \/ WriteFire
    \/ \E day \in ClickDays : Click(day)
    \/ PrevMonth
    \/ NextMonth
    \/ Unmount
    \/ Tick

Spec == Init /\ [][Next]_vars

\* what the scheduler may do to a calendar: each day keeps its status, or
\* goes from unset to safe
OnlyUnsetToSafe(before, after) ==
    /\ DOMAIN after = DOMAIN before
    /\ \A m \in DOMAIN before :
          /\ DOMAIN after[m].days = DOMAIN before[m].days
          /\ \A i \in DOMAIN before[m].days :
                \/ after[m].days[i].status = before[m].days[i].status
                \/ before[m].days[i].status = null /\ after[m].days[i].status = "safe"

\* C2: a scheduler fire changes no day that is safe, near_miss or accident,
\* and a load-time backfill changes no such day of the stored calendar it
\* accepted (or of the fresh calendar it fell back to): the only transition
\* either performs on any day is unset -> safe.
C2_SchedulerOnlyPromotesUnset ==
    [][ /\ lastOp' = "TimerFire" => OnlyUnsetToSafe(monthlyData, monthlyData')
        /\ lastOp' = "Mount" =>
              LET doc == storage[now.year]
              IN  IF doc.kind = "doc" /\ isValidMonthlyData(doc.monthlyData, now.year)
                  THEN OnlyUnsetToSafe(doc.monthlyData.items, monthlyData')
                  ELSE OnlyUnsetToSafe(createYearData(now.year), monthlyData') ]_vars

\* C2 witness: a fire has just promoted March 15 while the accident the user
\* cycled March 16 to, and the stored near miss of March 10, are still there
C2_Witness ==
    /\ lastOp = "TimerFire"
    /\ now = At(2026, 2, 15, 16, 0, 0, 0)
    /\ monthlyData[2].days[14].status = "safe"
    /\ rendered.monthlyData[2].days[14].status = null
    /\ monthlyData[2].days[13].status = "accident"
    /\ monthlyData[2].days[9].status = "near_miss"
    /\ events > 0

----------------------------------------------------------------------------
(* The dashboard left alone: it is mounted and stays mounted, nobody clicks a
   day, time passes and every due timeout runs *)

NextAlone ==
    \/ Mount
    \/ Render
    \/ TimerFire
    \/ WriteFire
    \/ PrevMonth
    \/ NextMonth
    \/ Tick

SpecAlone ==
    /\ Init
    /\ [][NextAlone]_vars
    /\ WF_vars(Mount) /\ WF_vars(Render) /\ WF_vars(TimerFire) /\ WF_vars(WriteFire) /\ WF_vars(Tick)

\* the days (month, day-of-month) the temporal claims follow
ProbeDays == { <<2, 14>>, <<2, 15>>, <<2, 16>>, <<11, 30>>, <<11, 31>> }

\* day d of month m of the calendar's year lies strictly before today
BeforeToday(m, d) ==
    \/ currentYear < now.year
    \/ currentYear = now.year /\ (m < now.month \/ (m = now.month /\ d < now.date))

IsToday(m, d) == currentYear = now.year /\ m = now.month /\ d = now.date

Unset(m, d) == monthlyData[m].days[d - 1].status = null
Safe(m, d)  == monthlyData[m].days[d - 1].status = "safe"

\* no day before today is left unset while the dashboard is left alone
C3_PastDecided ==
    mounted => \A m \in 0..11 : \A i \in DOMAIN monthlyData[m].days :
                  BeforeToday(m, i + 1) => ~Unset(m, i + 1)

\* from the cutoff on, today is safe or the fire that promotes it is due
\* within the minimum delay
C3_TodayDue ==
    mounted => \A m \in 0..11 : \A i \in DOMAIN monthlyData[m].days :
                  (IsToday(m, i + 1) /\ now.ms >= 16 * 60 * 60 * 1000 /\ Unset(m, i + 1)) =>
                      \E k \in DOMAIN timer :
                          /\ <<timer[k].year, timer[k].month, timer[k].date>> = <<now.year, now.month, now.date>>
                          /\ timer[k].ms <= 16 * 60 * 60 * 1000 + 250

----------------------------------------------------------------------------
(* Function-level specifications: the dashboard stays unmounted, the
   arguments of one function are drawn in the initial state and the action
   applies the function *)

DashIdle ==
    /\ now = At(2026, 2, 15, 10, 0, 0, 0)
    /\ mounted = FALSE
    /\ currentYear = now.year
    /\ displayMonth = now.month
    /\ monthlyData = createYearData(now.year)
    /\ rendered = [monthlyData |-> createYearData(now.year), displayMonth |-> now.month]
    /\ renderPending = FALSE
    /\ timer = << >>
    /\ writeTimer = {}
    /\ storage = [y \in YearKeys |-> Absent]
    /\ settings = InitialSettings
    /\ lastOp = "init"
    /\ ticks = 0 /\ events = 0

\* calendars of year y in which March 14, 15 and 16 hold any statuses and
\* every other day is unset
WindowCalendars(y) ==
    { WithStatus(WithStatus(WithStatus(createYearData(y), 2, 14, a), 2, 15, b), 2, 16, c) :
        a \in DayStatus, b \in DayStatus, c \in DayStatus }

\* the moments applyAutoSafe is applied at, for a calendar of year y: around
\* the cutoff of March 15, the first of March, the first and the last day of
\* the year, and a day of the year before and of the year after
AutoSafeMoments(y) ==
    { At(y, 2, 15, 10, 0, 0, 0), At(y, 2, 15, 15, 59, 59, 900), At(y, 2, 15, 16, 0, 0, 0),
      At(y, 2, 15, 16, 30, 0, 0), At(y, 2, 15, 17, 0, 0, 0), At(y, 2, 1, 10, 0, 0, 0),
      At(y, 0, 1, 0, 0, 0, 0), At(y, 11, 31, 23, 59, 0, 0),
      At(y - 1, 11, 31, 17, 0, 0, 0), At(y + 1, 2, 15, 17, 0, 0, 0) }

InitAutoSafe ==
    /\ DashIdle
    /\ NoEval
    /\ \E y \in {2026, 2028} : \E c \in WindowCalendars(y) : \E t \in AutoSafeMoments(y) :
          /\ args = [fn |-> "applyAutoSafe", prev |-> c, now |-> t, year |-> y]
          /\ ret = [calls |-> 0, input |-> c, value |-> c, same |-> TRUE, inputAfter |-> c]

\* applyAutoSafe(prev, now, year), and once more on its own result
CallAutoSafe ==
    /\ args.fn = "applyAutoSafe"
    /\ ret.calls < 2
    /\ LET r == applyAutoSafeCall(ret.value, args.now, args.year)
       IN  ret' = [calls |-> ret.calls + 1, input |-> ret.value,
                   value |-> r.value, same |-> r.same, inputAfter |-> r.input]
    /\ UNCHANGED <<args, dashVars, evalVars>>

NextAutoSafe == CallAutoSafe

SpecAutoSafe == InitAutoSafe /\ [][NextAutoSafe]_vars

\* C1: when now falls in `year`, applyAutoSafe sets to safe exactly the unset
\* days whose date is strictly before today's date, plus today itself iff
\* now's local time is at or after 16:00; every other day keeps its status.
\* The date of a day is read off its position (month m, day-of-month i + 1).
C1_AutoSafeExact ==
    (args.fn = "applyAutoSafe" /\ ret.calls = 1 /\ args.now.year = args.year) =>
        \A m \in DOMAIN args.prev : \A i \in DOMAIN args.prev[m].days :
            LET t       == args.now
                before  == m < t.month \/ (m = t.month /\ i + 1 < t.date)
                isToday == m = t.month /\ i + 1 = t.date
                due     == before \/ (isToday /\ t.ms >= 16 * 60 * 60 * 1000)
                old     == args.prev[m].days[i].status
            IN  ret.value[m].days[i].status = (IF old = null /\ due THEN "safe" ELSE old)

\* C1 witness: at 2026-03-15 16:00:00.000 an unset March 15 became safe beside
\* an unset March 16 that stayed unset
C1_Witness ==
    /\ args.fn = "applyAutoSafe" /\ ret.calls = 1
    /\ args.now = At(2026, 2, 15, 16, 0, 0, 0) /\ args.year = 2026
    /\ args.prev[2].days[14].status = null /\ ret.value[2].days[14].status = "safe"
    /\ args.prev[2].days[15].status = null /\ ret.value[2].days[15].status = null
    /\ args.prev[2].days[13].status = "accident" /\ ret.value[2].days[13].status = "accident"
    /\ ret.value[1].days[27].status = "safe"

----------------------------------------------------------------------------
(* One day cell clicked again and again on a mounted dashboard, with nothing
   else happening in between *)

InitCycle ==
    /\ now = At(2026, 2, 15, 10, 0, 0, 0)
    /\ mounted = TRUE
    /\ currentYear = now.year
    /\ displayMonth \in {1, 2}
    /\ monthlyData \in WindowCalendars(now.year)
    /\ rendered = [monthlyData |-> monthlyData, displayMonth |-> displayMonth]
    /\ renderPending = FALSE
    /\ timer = <<scheduleNext(now)>>
    /\ writeTimer = {}
    /\ storage = [y \in YearKeys |-> Absent]
    /\ settings = InitialSettings
    /\ lastOp = "init"
    /\ ticks = 0 /\ events = 0
    /\ NoEval
    /\ \E d \in {14, 15, 16} :
          args = [fn |-> "cycleDayStatus", day |-> d,
                  start |-> StatusAt(monthlyData, displayMonth, d - 1)]
    /\ ret = [calls |-> 0]

CycleClick ==
    /\ args.fn = "cycleDayStatus"
    /\ ret.calls < MaxCycles
    /\ ClickEffect(args.day)
    /\ ret' = [calls |-> ret.calls + 1]
    /\ UNCHANGED <<args, events>>

NextCycle == CycleClick

SpecCycle == InitCycle /\ [][NextCycle]_vars

\* the cycle order of the statuses
CycleOrder == <<null, "safe", "near_miss", "accident">>
CyclePos(status) == CHOOSE k \in 1..4 : CycleOrder[k] = status

\* C10: the status cycle is unset -> safe -> near_miss -> accident -> unset:
\* after k clicks on the same day, with nothing else in between, the day is k
\* steps further round the cycle; four clicks return it to its starting
\* status and one, two or three clicks never do.
C10_CycleOfFour ==
    args.fn = "cycleDayStatus" =>
        LET cur == StatusAt(monthlyData, displayMonth, args.day - 1)
        IN  /\ cur = CycleOrder[((CyclePos(args.start) - 1 + ret.calls) % 4) + 1]
            /\ ret.calls = 4 => cur = args.start
            /\ ret.calls \in 1..3 => cur # args.start

\* C10 witness: March 15 started as a near miss and is a near miss again
\* after four clicks
C10_Witness ==
    /\ args.fn = "cycleDayStatus" /\ args.day = 15 /\ displayMonth = 2
    /\ args.start = "near_miss"
    /\ ret.calls = 4
    /\ monthlyData[2].days[14].status = "near_miss"
    /\ lastOp = "Click"

----------------------------------------------------------------------------
(* The evaluator alone: an expression and a variable mapping are drawn in
   the initial state, safeEval is applied to them up to MaxEvals times, and
   the window is resized in between *)

\* the pieces the expressions are put together from
Lexemes ==
    { Lx_manpower, Lx_daysPerWeek, Lx_unknownVar, Lx_innerWidth, Lx_print, Lx_import,
      <<"0">>, <<"1">>, <<".">>, <<"(">>, <<")">>, <<";">>,
      <<" ", "+", " ">>, <<" ", "-", " ">>, <<" ", "*", " ">>, <<" ", "/", " ">> }

RECURSIVE Flatten(_)
Flatten(ls) == IF ls = << >> THEN << >> ELSE Head(ls) \o Flatten(Tail(ls))

\* the variable mappings
Staffing     == [name \in {Lx_manpower, Lx_daysPerWeek} |-> IF name = Lx_manpower THEN 675 ELSE 6]
JustManpower == [name \in {Lx_manpower} |-> 1]
NoVars       == [name \in {} |-> 0]

\* expressions named by the specification
ManpowerTimesDays == <<"m", "a", "n", "p", "o", "w", "e", "r", " ", "*", " ", "d", "a", "y", "s", "P", "e", "r", "W", "e", "e", "k">>
UnknownPlusOne    == <<"u", "n", "k", "n", "o", "w", "n", "V", "a", "r", " ", "+", " ", "1">>
ImportCall        == <<"i", "m", "p", "o", "r", "t", "(", "1", ")">>
PrintCall         == <<"p", "r", "i", "n", "t", "(", ")">>
Blank             == <<" ", " ">>

\* the widths of the window
Widths == <<1280, 1920>>

InitEval ==
    /\ DashIdle
    /\ NoCall
    /\ env = [innerWidth |-> Widths[1], printed |-> FALSE, imported |-> FALSE]
    /\ result = Null /\ prevResult = Null /\ evalCount = 0 /\ reachedEval = FALSE
    /\ \/ /\ \E n \in 0..MaxExprLen : \E ls \in [1..n -> Lexemes] : expr = Flatten(ls)
          /\ InFragment(expr)
          /\ evars = Staffing
       \/ expr = UnknownPlusOne /\ evars = JustManpower
       \/ expr = ImportCall /\ evars = NoVars
       \/ expr = PrintCall /\ evars = NoVars
       \/ expr = Blank /\ evars = Staffing

\* one call safeEval(expr, evars)
Evaluate ==
    /\ evalCount < MaxEvals
    /\ LET r == safeEval(expr, evars, env)
       IN  /\ result' = r.value
           /\ reachedEval' = r.reached
           /\ env' = r.env
    /\ prevResult' = result
    /\ evalCount' = evalCount + 1
    /\ UNCHANGED <<expr, evars, dashVars, callVars>>

\* the user resizes the window
Resize ==
    /\ env.innerWidth = Widths[1]
    /\ env' = [env EXCEPT !.innerWidth = Widths[2]]
    /\ UNCHANGED <<expr, evars, result, prevResult, evalCount, reachedEval, dashVars, callVars>>

NextEval == Evaluate \/ Resize

SpecEval == InitEval /\ [][NextEval]_vars

\* the names an expression refers to as identifiers: its name tokens, but
\* for the keyword import and the property names that follow a point
ReferencedNames(cs) ==
    LET toks == Lex(cs, 1, << >>)
    IN  { toks[p].s : p \in { q \in 1..Len(toks) :
              /\ toks[q].t = "name"
              /\ toks[q].s # Lx_import
              /\ ~(q > 1 /\ IsPunct(toks[q - 1], ".")) } }

\* C4: evaluating an expression never changes any state outside the
\* evaluator and never reaches a function or object that is not in the
\* variable mapping: a call of safeEval leaves the environment as it was.
C4_NothingOutsideTouched ==
    [][evalCount' # evalCount => env' = env]_vars

\* C5: two evaluations of the same expression with the same mapping return
\* the same result, whatever happened to the environment in between.
C5_SameResultWhateverEnvironment ==
    evalCount >= 2 => result = prevResult

\* C6: an expression that refers to an identifier that is not a key of the
\* variable mapping evaluates to invalid.
C6_UnknownNamesInvalid ==
    (evalCount >= 1 /\ \E name \in ReferencedNames(expr) : name \notin DOMAIN evars)
        => result = Null

\* C7: an expression that contains a character outside the whitelist is
\* invalid at once: the call returns null without getting to the evaluation
\* and without touching the environment.
C7_OutsideWhitelistRejectedAtOnce ==
    (evalCount >= 1 /\ \E i \in 1..Len(expr) : expr[i] \notin WhitelistChars)
        => /\ result = Null
           /\ ~reachedEval
           /\ ~env.printed /\ ~env.imported

\* C7 witness: `print;` was evaluated; its semicolon is outside the whitelist
C7_Witness ==
    /\ expr = Lx_print \o <<";">>
    /\ evalCount = 1
    /\ result = Null /\ ~reachedEval

\* C8: import(1) with the empty mapping is invalid because the whitelist
\* stops it: the call never gets to the evaluation step.
C8_ImportStoppedByWhitelist ==
    (expr = ImportCall /\ evars = NoVars /\ evalCount >= 1)
        => (result = Null /\ ~reachedEval)

\* C9: safeEval is total and never throws: it returns a finite number or
\* null; an empty expression, a syntax error, a runtime error and a division
\* by zero give null; a binary operation over two variables gives its
\* arithmetic value, and manpower * daysPerWeek with 675 and 6 gives 4050.
C9_TotalAndArithmetic ==
    evalCount >= 1 =>
        /\ result.k \in {"number", "null"}
        /\ result.k = "number" => result.d > 0
        /\ trim(expr) = << >> => result = Null
        /\ (expr = ManpowerTimesDays /\ evars = Staffing) => result = [k |-> "number", n |-> 4050, d |-> 1]
        /\ \A a \in DOMAIN evars : \A b \in DOMAIN evars :
              /\ expr = a \o <<" ", "+", " ">> \o b => result = [k |-> "number", n |-> evars[a] + evars[b], d |-> 1]
              /\ expr = a \o <<" ", "-", " ">> \o b => result = [k |-> "number", n |-> evars[a] - evars[b], d |-> 1]
              /\ expr = a \o <<" ", "*", " ">> \o b => result = [k |-> "number", n |-> evars[a] * evars[b], d |-> 1]
              /\ expr = a \o <<" ", "/", " ">> \o b =>
                    (result.k = "number" /\ result.n * evars[b] = evars[a] * result.d)
              \* a syntax error: the operator has no right operand
              /\ expr = a \o <<" ", "*", " ">> => result = Null
              \* a division by zero
              /\ expr = a \o <<" ", "/", " ">> \o <<"0">> => result = Null
        \* a runtime error: unknownVar is not defined
        /\ expr = UnknownPlusOne => result = Null
        /\ expr = <<"0">> \o <<" ", "/", " ">> \o <<"0">> => result = Null

\* C9 witness: manpower * daysPerWeek with manpower = 675 and daysPerWeek = 6
\* was evaluated to 4050
C9_Witness ==
    /\ expr = ManpowerTimesDays /\ evars = Staffing
    /\ evalCount = 1 /\ reachedEval
    /\ result = [k |-> "number", n |-> 4050, d |-> 1]

----------------------------------------------------------------------------
(* Clicks that interleave with the scheduler, the load and the re-render *)

\* C11: every status change caused by a click is the cycle successor of the
\* status the day holds in the calendar when the change is applied: a click
\* step changes exactly one day, by one step of the cycle, whatever
\* happened since the last render.
C11_ClickIsOneCycleStep ==
    [][lastOp' = "Click" =>
          \E m \in DOMAIN monthlyData : \E i \in DOMAIN monthlyData[m].days :
              /\ monthlyData'[m].days[i].status = nextDayStatus(monthlyData[m].days[i].status)
              /\ \A m2 \in DOMAIN monthlyData : \A i2 \in DOMAIN monthlyData[m2].days :
                    <<m2, i2>> # <<m, i>> => monthlyData'[m2].days[i2] = monthlyData[m2].days[i2]
      ]_vars

----------------------------------------------------------------------------
(* setDayStatus alone: the updater applied once to a calendar, a month
   index, a day and a status *)

\* the month indexes and days the updater is applied to
MonthProbes == {-1, 0, 1, 2, 11, 12}
DayProbes   == {0, 1, 15, 28, 29, 30, 31, 32}

InitSetStatus ==
    /\ DashIdle
    /\ NoEval
    /\ \E y \in {2026, 2028} : \E c \in {createYearData(y), StoredCalendar(y)} :
       \E m \in MonthProbes : \E d \in DayProbes : \E st \in DayStatus :
          /\ args = [fn |-> "setDayStatus", prev |-> c, year |-> y, month |-> m, day |-> d, status |-> st]
          /\ ret = [calls |-> 0, thrown |-> FALSE, same |-> TRUE, value |-> c]

CallSetStatus ==
    /\ args.fn = "setDayStatus"
    /\ ret.calls = 0
    /\ LET r == setDayStatusCall(args.prev, args.month, args.day, args.status)
       IN  ret' = [calls |-> 1, thrown |-> r.thrown, same |-> r.same, value |-> r.value]
    /\ UNCHANGED <<args, dashVars, evalVars>>

NextSetStatus == CallSetStatus

SpecSetStatus == InitSetStatus /\ [][NextSetStatus]_vars

\* the (month, day) of the call exists in the calendar of the year
SetStatusInRange ==
    /\ args.month \in 0..11
    /\ args.day \in 1..(IF args.month = 1
                        THEN (IF args.year % 4 = 0 /\ (args.year % 100 # 0 \/ args.year % 400 = 0) THEN 29 ELSE 28)
                        ELSE IF args.month \in {3, 5, 8, 10} THEN 30 ELSE 31)

\* C12: setDayStatus on an in-range (month, day) gives that day the status
\* and changes nothing else: every other day keeps its status, every day its
\* number, every month its `month` and `year` fields and its length.
C12_ExactlyOneDay ==
    (args.fn = "setDayStatus" /\ ret.calls = 1 /\ SetStatusInRange) =>
        /\ ~ret.thrown
        /\ DOMAIN ret.value = DOMAIN args.prev
        /\ \A m \in DOMAIN args.prev :
              /\ ret.value[m].month = args.prev[m].month
              /\ ret.value[m].year = args.prev[m].year
              /\ DOMAIN ret.value[m].days = DOMAIN args.prev[m].days
              /\ \A i \in DOMAIN args.prev[m].days :
                    /\ ret.value[m].days[i].day = args.prev[m].days[i].day
                    /\ ret.value[m].days[i].status =
                          (IF m = args.month /\ i = args.day - 1
                           THEN args.status ELSE args.prev[m].days[i].status)

\* C12 witness: December 31 of the stored calendar of 2026 was set to
\* accident beside December 30, which stayed a near miss
C12_Witness ==
    /\ args.fn = "setDayStatus" /\ ret.calls = 1
    /\ args.year = 2026 /\ args.month = 11 /\ args.day = 31 /\ args.status = "accident"
    /\ args.prev[11].days[30].status = null /\ ret.value[11].days[30].status = "accident"
    /\ args.prev[11].days[29].status = "near_miss" /\ ret.value[11].days[29].status = "near_miss"

\* C13: setDayStatus with a month index or a day the calendar does not have
\* is a no-op: nothing is thrown and the calendar returned is the input
\* itself, with every day as it was.
C13_OutOfRangeNoOp ==
    (args.fn = "setDayStatus" /\ ret.calls = 1 /\ ~SetStatusInRange) =>
        /\ ~ret.thrown
        /\ ret.same
        /\ ret.value = args.prev

\* C13 witness: February 29 of 2026 and month index 12 were set
C13_Witness ==
    /\ args.fn = "setDayStatus" /\ ret.calls = 1
    /\ args.year = 2026 /\ args.status = "accident"
    /\ \/ args.month = 1 /\ args.day = 29
       \/ args.month = 12 /\ args.day = 15
    /\ ret.same /\ ret.value = args.prev

----------------------------------------------------------------------------
(* createYearData alone, for the four-digit years around the present and the
   century years *)

YearProbes == (1990..2060) \cup {1900, 2000, 2100, 2400}

InitCreateYear ==
    /\ DashIdle
    /\ NoEval
    /\ \E y \in YearProbes :
          /\ args = [fn |-> "createYearData", year |-> y]
          /\ ret = [calls |-> 0, value |-> << >>]

CallCreateYear ==
    /\ args.fn = "createYearData"
    /\ ret.calls = 0
    /\ ret' = [calls |-> 1, value |-> createYearData(args.year)]
    /\ UNCHANGED <<args, dashVars, evalVars>>

NextCreateYear == CallCreateYear

SpecCreateYear == InitCreateYear /\ [][NextCreateYear]_vars

\* the number of days of month m (0..11) of year y in the Gregorian calendar
TrueDays(y, m) ==
    <<31, IF y % 400 = 0 THEN 29 ELSE IF y % 100 = 0 THEN 28 ELSE IF y % 4 = 0 THEN 29 ELSE 28,
      31, 30, 31, 30, 31, 31, 30, 31, 30, 31>>[m + 1]

\* C14: createYearData(year) has exactly the months 0..11, in order, each
\* carrying the year and its own index, each with the true number of days
\* of that month in that year, the days numbered 1..N in order and all unset.
C14_TwelveTrueMonths ==
    (args.fn = "createYearData" /\ ret.calls = 1) =>
        /\ DOMAIN ret.value = 0..11
        /\ \A m \in 0..11 :
              /\ ret.value[m].month = m
              /\ ret.value[m].year = args.year
              /\ DOMAIN ret.value[m].days = 0..(TrueDays(args.year, m) - 1)
              /\ \A i \in DOMAIN ret.value[m].days :
                    ret.value[m].days[i] = [day |-> i + 1, status |-> null]
        /\ args.year = 2028 => Length(ret.value[1].days) = 29
        /\ args.year = 2026 => Length(ret.value[1].days) = 28

\* C14 witness: the calendar of the leap year 2028, with February 29 in it
C14_Witness ==
    /\ args.fn = "createYearData" /\ ret.calls = 1 /\ args.year = 2028
    /\ Length(ret.value[1].days) = 29
    /\ ret.value[1].days[28] = [day |-> 29, status |-> null]

----------------------------------------------------------------------------
(* isValidMonthlyData alone, on calendars and on calendars spoilt in one
   place *)

\* the calendar c with month k claiming the year after its own
WrongYearAt(c, k) == [c EXCEPT ![k].year = c[k].year + 1]
\* with month k claiming the index of the month after it
WrongMonthAt(c, k) == [c EXCEPT ![k].month = (k + 1) % 12]
\* with the last day of month k missing
DayDroppedAt(c, k) ==
    [c EXCEPT ![k].days = [i \in 0..(Length(c[k].days) - 2) |-> c[k].days[i]]]
\* with one day more in month k
DayAddedAt(c, k) ==
    [c EXCEPT ![k].days = [i \in 0..Length(c[k].days) |->
                              IF i < Length(c[k].days) THEN c[k].days[i]
                              ELSE [day |-> i + 1, status |-> null]]]
\* with a thirteenth month, a copy of December
ThirteenMonths(c) == [m \in 0..12 |-> IF m < 12 THEN c[m] ELSE c[11]]

Candidates(y) ==
    { JString, JArray(createYearData(y)), JArray(StoredCalendar(y)),
      JArray(ShortCalendar(y)), JArray(ThirteenMonths(createYearData(y))) }
    \cup { JArray(WrongYearAt(createYearData(y), k)) : k \in 0..11 }
    \cup { JArray(WrongMonthAt(createYearData(y), k)) : k \in 0..11 }
    \cup { JArray(DayDroppedAt(StoredCalendar(y), k)) : k \in 0..11 }
    \cup { JArray(DayAddedAt(createYearData(y), k)) : k \in 0..11 }

InitValidate ==
    /\ DashIdle
    /\ NoEval
    /\ \E y \in {2026, 2028} : \E c \in Candidates(y) : \E expected \in {2026, 2027, 2028} :
          /\ args = [fn |-> "isValidMonthlyData", data |-> c, made |-> y, year |-> expected]
          /\ ret = [calls |-> 0, value |-> FALSE]

CallValidate ==
    /\ args.fn = "isValidMonthlyData"
    /\ ret.calls = 0
    /\ ret' = [calls |-> 1, value |-> isValidMonthlyData(args.data, args.year)]
    /\ UNCHANGED <<args, dashVars, evalVars>>

NextValidate == CallValidate

SpecValidate == InitValidate /\ [][NextValidate]_vars

\* C15: isValidMonthlyData(candidate, year) is true exactly when the
\* candidate is an array of 12 months, each month's `month` is its index,
\* each month's `year` is the expected year and each month has the true
\* number of days; it accepts createYearData(year) and rejects a calendar of
\* 11 months and one whose month 3 claims another year.
C15_ValidateExact ==
    (args.fn = "isValidMonthlyData" /\ ret.calls = 1) =>
        /\ ret.value =
              (/\ args.data.type = "array"
               /\ DOMAIN args.data.items = 0..11
               /\ \A idx \in 0..11 :
                     /\ args.data.items[idx].month = idx
                     /\ args.data.items[idx].year = args.year
                     /\ Cardinality(DOMAIN args.data.items[idx].days) = TrueDays(args.year, idx))
        /\ args.data = JArray(createYearData(args.year)) => ret.value
        /\ args.data = JArray(ShortCalendar(args.year)) => ~ret.value
        /\ args.data = JArray(WrongYearAt(createYearData(args.year), 3)) => ~ret.value

\* C15 witness: the calendar of 2026 whose month 3 claims 2027 was rejected
\* for the year 2026
C15_Witness ==
    /\ args.fn = "isValidMonthlyData" /\ ret.calls = 1
    /\ args.year = 2026
    /\ args.data = JArray(WrongYearAt(createYearData(2026), 3))
    /\ ~ret.value

----------------------------------------------------------------------------
(* Invariants of the calendar in memory *)

\* C16: in every reachable state the calendar in memory has the 12 months
\* 0..11 and each month has the true number of days of that month in the
\* dashboard's year: it passes isValidMonthlyData for currentYear.
C16_CalendarShape ==
    /\ DOMAIN monthlyData = 0..11
    /\ \A m \in 0..11 :
          /\ DOMAIN monthlyData[m].days = 0..(TrueDays(currentYear, m) - 1)
          /\ monthlyData[m].month = m
          /\ monthlyData[m].year = currentYear
    /\ isValidMonthlyData(JArray(monthlyData), currentYear)

\* C16 witness: the stored calendar was loaded, the 16:00 fire of March 15
\* promoted the day, the user went to April and clicked April 15
C16_Witness ==
    /\ mounted /\ lastOp = "Click"
    /\ now.month = 2 /\ now.date = 15 /\ now.ms >= 16 * 60 * 60 * 1000
    /\ monthlyData[2].days[9].status = "near_miss"
    /\ monthlyData[2].days[14].status = "safe"
    /\ displayMonth = 3 /\ monthlyData[3].days[14].status = "safe"

\* C17: in every reachable state every day's status is one of unset, safe,
\* near_miss, accident.
C17_StatusesAreTheFour ==
    \A m \in DOMAIN monthlyData : \A i \in DOMAIN monthlyData[m].days :
        monthlyData[m].days[i].status \in {null, "safe", "near_miss", "accident"}

----------------------------------------------------------------------------
(* applyAutoSafe as a function of references *)

\* the day (month m, index i) of the calendar c is unset and due at moment
\* t: before t's date, or t's date from 16:00 on
DueUnset(c, m, i, t) ==
    /\ c[m].days[i].status = null
    /\ \/ m < t.month
       \/ m = t.month /\ i + 1 < t.date
       \/ m = t.month /\ i + 1 = t.date /\ t.ms >= 16 * 60 * 60 * 1000

\* C18: applyAutoSafe returns the very calendar it was given whenever no day
\* is promoted, in particular whenever now's year differs from `year`;
\* otherwise it returns a new calendar that differs from the input in
\* exactly the promoted days; the input calendar is never modified.
C18_SameReferenceUnlessPromoted ==
    (args.fn = "applyAutoSafe" /\ ret.calls = 1) =>
        LET promotes == /\ args.now.year = args.year
                        /\ \E m \in DOMAIN args.prev : \E i \in DOMAIN args.prev[m].days :
                              DueUnset(args.prev, m, i, args.now)
        IN  /\ ~promotes => (ret.same /\ ret.value = args.prev)
            /\ promotes =>
                  /\ ~ret.same
                  /\ \A m \in DOMAIN args.prev : \A i \in DOMAIN args.prev[m].days :
                        ret.value[m].days[i] =
                            (IF DueUnset(args.prev, m, i, args.now)
                             THEN [day |-> i + 1, status |-> "safe"]
                             ELSE args.prev[m].days[i])
            /\ ret.inputAfter = args.prev

\* C18 witness: at 16:00 of March 15 the unset March 15 was promoted in a new
\* calendar and the calendar handed in still has it unset
C18_Witness ==
    /\ args.fn = "applyAutoSafe" /\ ret.calls = 1
    /\ args.now = At(2026, 2, 15, 16, 0, 0, 0) /\ args.year = 2026
    /\ args.prev[2].days[14].status = null
    /\ ret.value[2].days[14].status = "safe"
    /\ ~ret.same
    /\ ret.inputAfter[2].days[14].status = null

\* C19: applyAutoSafe is idempotent: the second application with the same
\* now gives the calendar the first one gave and returns its input itself.
C19_Idempotent ==
    (args.fn = "applyAutoSafe" /\ ret.calls = 2) =>
        /\ ret.value = ret.input
        /\ ret.same
        /\ ret.value = applyAutoSafe(args.prev, args.now, args.year)

\* C19 witness: the first application promoted March 15, the second returned
\* that calendar again
C19_Witness ==
    /\ args.fn = "applyAutoSafe" /\ ret.calls = 2
    /\ args.now = At(2026, 2, 15, 17, 0, 0, 0) /\ args.year = 2026
    /\ args.prev[2].days[14].status = null
    /\ ret.input[2].days[14].status = "safe"
    /\ ret.value[2].days[14].status = "safe"
    /\ ret.same

----------------------------------------------------------------------------
(* The rollover timer *)

\* C20: at every moment at most one rollover timer is pending, exactly one
\* while the dashboard is mounted and none after unmount; each fire applies
\* applyAutoSafe with the moment of the fire and arms exactly one new timer,
\* for a later moment.
C20_OneRolloverTimer ==
    /\ [](/\ Len(timer) <= 1
          /\ mounted => Len(timer) = 1
          /\ ~mounted => timer = << >>)
    /\ [][lastOp' = "TimerFire" =>
             /\ monthlyData' = applyAutoSafe(monthlyData, now, currentYear)
             /\ Len(timer') = 1
             /\ MomentLT(now, timer'[1])
             /\ \A k \in DOMAIN timer : MomentLE(timer[k], now)
         ]_vars

\* C20 witness: in a lifetime that followed an unmount or a click, the timer
\* fired at the cutoff and the one pending timer is tomorrow's 16:00
C20_Witness ==
    /\ mounted /\ lastOp = "TimerFire" /\ events >= 1
    /\ timer = <<[NextDate(now) EXCEPT !.ms = 16 * 60 * 60 * 1000]>>

----------------------------------------------------------------------------
(* Teardown *)

\* C21: after unmount neither the rollover timeout nor a pending debounced
\* write fires: while the dashboard stays unmounted no timeout is pending,
\* none fires, and neither the calendar nor the storage changes.
C21_NothingFiresAfterUnmount ==
    /\ [](~mounted => (timer = << >> /\ writeTimer = {}))
    /\ [][(~mounted /\ ~mounted') =>
             /\ lastOp' \notin {"TimerFire", "WriteFire"}
             /\ monthlyData' = monthlyData
             /\ storage' = storage
         ]_vars

\* C21 witness: a click on March 15 armed a write, the dashboard was
\* unmounted before the write was due, time went on and nothing was stored
C21_Witness ==
    /\ ~mounted /\ lastOp = "Tick" /\ events = 2
    /\ now.month = 2 /\ now.date = 15 /\ now.ms < 16 * 60 * 60 * 1000
    /\ monthlyData[2].days[14].status = "safe"
    /\ storage[currentYear].kind = "absent"

----------------------------------------------------------------------------
(* Arming the rollover timer *)

\* the next occurrence of 16:00 seen from moment t: today's when t is
\* strictly before it, else tomorrow's
NextCutoff(t) ==
    IF t.ms < 16 * 60 * 60 * 1000
    THEN [t EXCEPT !.ms = 16 * 60 * 60 * 1000]
    ELSE [NextDate(t) EXCEPT !.ms = 16 * 60 * 60 * 1000]

\* the timeout armed by the step: the last of the pending ones
Armed == timer'[Len(timer')]

\* C22, as stated: whenever the rollover timer is armed it is due at the next
\* occurrence of 16:00 and its delay is at least 250 ms.
C22_DueAtNextCutoff ==
    [][lastOp' \in {"Mount", "TimerFire"} =>
          /\ Armed = NextCutoff(now)
          /\ DiffMs(now, Armed) >= 250
      ]_vars

\* C22, amended: whenever the rollover timer is armed it aims at the next
\* occurrence of 16:00 and is due at that moment or 250 ms after the arming,
\* whichever is later; its delay is at least 250 ms and at most a day.
C22_DueAtNextCutoffOrFloor ==
    [][lastOp' \in {"Mount", "TimerFire"} =>
          /\ Armed = (IF DiffMs(now, NextCutoff(now)) >= 250
                      THEN NextCutoff(now) ELSE AddMs(now, 250))
          /\ DiffMs(now, Armed) >= 250
          /\ DiffMs(now, Armed) <= 24 * 60 * 60 * 1000
      ]_vars

\* C22 witness: mounted 100 ms before the cutoff of March 15, the timer is
\* due 250 ms later, at 16:00:00.150
C22_Witness ==
    /\ lastOp = "Mount"
    /\ now = At(2026, 2, 15, 15, 59, 59, 900)
    /\ timer = <<At(2026, 2, 15, 16, 0, 0, 150)>>

----------------------------------------------------------------------------
(* The initial load *)

\* C23: on every load path - nothing stored, a stored valid calendar, a
\* stored invalid calendar, a read or parse error - the calendar that
\* becomes the in-memory calendar is the stored valid calendar, or else a
\* fresh one, with applyAutoSafe applied: every unset day before today is
\* safe, today from 16:00 on too, and every other day is as stored or unset.
C23_LoadBackfills ==
    lastOp = "Mount" =>
        LET doc    == storage[currentYear]
            usable == /\ doc.kind = "doc"
                      /\ doc.monthlyData.type = "array"
                      /\ DOMAIN doc.monthlyData.items = 0..11
            base   == IF usable THEN doc.monthlyData.items
                      ELSE [m \in 0..11 |-> [month |-> m, year |-> currentYear,
                               days |-> [i \in 0..(TrueDays(currentYear, m) - 1) |->
                                           [day |-> i + 1, status |-> null]]]]
        IN  /\ \A m \in 0..11 : \A i \in DOMAIN base[m].days :
                  monthlyData[m].days[i].status =
                      (IF DueUnset(base, m, i, now) THEN "safe" ELSE base[m].days[i].status)
            /\ \A m \in 0..11 : \A i \in DOMAIN monthlyData[m].days :
                  (m < now.month \/ (m = now.month /\ i + 1 < now.date))
                      => monthlyData[m].days[i].status # null

\* C23 witness: the stored calendar of 2026 was loaded on March 15: March 9
\* was backfilled to safe, the near miss of March 10 and the accident of
\* March 14 were kept, March 15 is still unset
C23_Witness ==
    /\ lastOp = "Mount" /\ now.month = 2 /\ now.date = 15
    /\ storage[currentYear].kind = "doc"
    /\ storage[currentYear].monthlyData.items[2].days[8].status = null
    /\ monthlyData[2].days[8].status = "safe"
    /\ monthlyData[2].days[9].status = "near_miss"
    /\ monthlyData[2].days[13].status = "accident"
    /\ monthlyData[2].days[14].status = null

----------------------------------------------------------------------------
(* The streak *)

\* new Date(y, m, d - 1) and dt.setDate(dt.getDate() - 1): the day before
PrevDate(dt) ==
    IF dt.date > 1 THEN [dt EXCEPT !.date = dt.date - 1]
    ELSE IF dt.month > 0
         THEN [dt EXCEPT !.month = dt.month - 1, !.date = DaysInMonth(dt.year, dt.month - 1)]
         ELSE [dt EXCEPT !.year = dt.year - 1, !.month = 11, !.date = 31]

\* the loop of safetyStreak: from dt backwards, counting safe and near-miss
\* days, leaving at the first other day or when dt leaves year y
RECURSIVE StreakLoop(_, _, _, _)
StreakLoop(data, y, dt, streak) ==
    LET st == StatusAt(data, dt.month, dt.date - 1)
    IN  IF st \notin {"safe", "near_miss"} THEN streak
        ELSE IF PrevDate(dt).year # y THEN streak + 1
        ELSE StreakLoop(data, y, PrevDate(dt), streak + 1)

\* safetyStreak that always counts up to yesterday, whatever today's status
safetyStreakUpToYesterday(data, nowDt, year) ==
    IF nowDt.year # year THEN 0
    ELSE LET end == PrevDate([year |-> nowDt.year, month |-> nowDt.month, date |-> nowDt.date])
         IN  IF end.year # nowDt.year THEN 0 ELSE StreakLoop(data, nowDt.year, end, 0)

\* safetyStreak that shows no streak on a day with an accident
safetyStreakZeroOnAccident(data, nowDt, year) ==
    IF nowDt.year # year THEN 0
    ELSE LET today       == [year |-> nowDt.year, month |-> nowDt.month, date |-> nowDt.date]
             todayStatus == StatusAt(data, nowDt.month, nowDt.date - 1)
             end         == IF todayStatus \in {"safe", "near_miss"} THEN today ELSE PrevDate(today)
         IN  IF end.year # nowDt.year \/ todayStatus = "accident" THEN 0
             ELSE StreakLoop(data, nowDt.year, end, 0)

\* safetyStreak, of the calendar, the clock and currentYear it reads
safetyStreak(data, nowDt, year) ==
    IF nowDt.year # year THEN 0
    ELSE LET today       == [year |-> nowDt.year, month |-> nowDt.month, date |-> nowDt.date]
             todayStatus == StatusAt(data, nowDt.month, nowDt.date - 1)
             end         == IF todayStatus \in {"safe", "near_miss"} THEN today ELSE PrevDate(today)
         IN  IF end.year # nowDt.year THEN 0 ELSE StreakLoop(data, nowDt.year, end, 0)

\* a calendar of year y in which January 1 and 2, all of February, March 1
\* to 12 and December 30 and 31 are safe, the other days never decided
SafeStretches(y) ==
    [m \in 0..11 |-> [createYearData(y)[m] EXCEPT
        !.days = [i \in DOMAIN createYearData(y)[m].days |->
                     [day |-> i + 1,
                      status |-> IF \/ m = 0 /\ i + 1 <= 2
                                    \/ m = 1
                                    \/ m = 2 /\ i + 1 <= 12
                                    \/ m = 11 /\ i + 1 >= 30
                                 THEN "safe" ELSE null]]]]

\* calendars of year y - never decided, or with the safe stretches - in
\* which March 13, 14 and 15 hold any statuses
StreakCalendars(y) ==
    { WithStatus(WithStatus(WithStatus(base, 2, 13, a), 2, 14, b), 2, 15, c) :
        base \in {createYearData(y), SafeStretches(y)},
        a \in DayStatus, b \in DayStatus, c \in DayStatus }

\* the moments the streak is computed at, for a calendar of year y: March 15
\* and 16, the first of March, the first two days and the last day of the
\* year, and a day of the year before and of the year after
StreakMoments(y) ==
    { At(y, 2, 15, 10, 0, 0, 0), At(y, 2, 16, 10, 0, 0, 0), At(y, 2, 1, 10, 0, 0, 0),
      At(y, 0, 1, 10, 0, 0, 0), At(y, 0, 2, 10, 0, 0, 0), At(y, 11, 31, 17, 0, 0, 0),
      At(y - 1, 11, 31, 17, 0, 0, 0), At(y + 1, 0, 1, 10, 0, 0, 0) }

InitStreak ==
    /\ DashIdle
    /\ NoEval
    /\ \E y \in {2026, 2028} : \E c \in StreakCalendars(y) : \E t \in StreakMoments(y) :
          /\ args = [fn |-> "safetyStreak", monthlyData |-> c, now |-> t, year |-> y]
          /\ ret = [calls |-> 0, value |-> 0]

CallStreak ==
    /\ args.fn = "safetyStreak"
    /\ ret.calls = 0
    /\ ret' = [calls |-> 1, value |-> safetyStreak(args.monthlyData, args.now, args.year)]
    /\ UNCHANGED <<args, dashVars, evalVars>>

NextStreak == CallStreak

SpecStreak == InitStreak /\ [][NextStreak]_vars

\* the n-th day of year y (1 = January 1) is a safe or a near-miss day of c
StreakDay(c, y, n) ==
    LET m == CHOOSE k \in 0..11 :
                 /\ DayNum(y, k, 1) - DayNum(y, 0, 1) < n
                 /\ n <= DayNum(y, k, 1) - DayNum(y, 0, 1) + TrueDays(y, k)
    IN  StatusAt(c, m, n - (DayNum(y, m, 1) - DayNum(y, 0, 1)) - 1) \in {"safe", "near_miss"}

\* C24: the streak is 0 when now's year differs from the year; otherwise it
\* is the length of the longest run of consecutive safe or near-miss days
\* that ends at the anchor - today when today is safe or a near miss, else
\* yesterday - and does not reach before January 1; it is 0 when the anchor
\* is in the previous year.
C24_StreakExact ==
    (args.fn = "safetyStreak" /\ ret.calls = 1) =>
        IF args.now.year # args.year THEN ret.value = 0
        ELSE LET y       == args.year
                 today   == DayNum(y, args.now.month, args.now.date) - DayNum(y, 0, 1) + 1
                 counted == [n \in 1..today |-> StreakDay(args.monthlyData, y, n)]
                 anchor  == IF counted[today] THEN today ELSE today - 1
             IN  /\ ret.value \in 0..anchor
                 /\ \A j \in 0..(ret.value - 1) : counted[anchor - j]
                 /\ ret.value = anchor \/ ~counted[anchor - ret.value]

\* C24 witness: on March 15, still unset, after a safe March 13 and a near
\* miss on March 14 in a calendar otherwise never decided, the streak is 2
C24_Witness ==
    /\ args.fn = "safetyStreak" /\ ret.calls = 1
    /\ args.now.year = args.year /\ args.now.month = 2 /\ args.now.date = 15
    /\ StatusAt(args.monthlyData, 2, 14) = null
    /\ StatusAt(args.monthlyData, 2, 13) = "near_miss"
    /\ StatusAt(args.monthlyData, 2, 12) = "safe"
    /\ StatusAt(args.monthlyData, 2, 11) = null
    /\ ret.value = 2

----------------------------------------------------------------------------
(* The dashboard with its settings: zoom buttons, editors, failing writes *)

\* an event handler that sets the state beside the calendar to `next`:
\* React renders synchronously, and the persist effect runs again when one
\* of the values it depends on has changed
SetSettings(next, persistAgain) ==
    /\ mounted
    /\ settings' = next
    /\ rendered' = [monthlyData |-> monthlyData, displayMonth |-> displayMonth]
    /\ renderPending' = FALSE
    /\ writeTimer' = IF persistAgain \/ renderPending
                     THEN ArmWrite(currentYear, Payload(monthlyData, next))
                     ELSE writeTimer
    /\ UNCHANGED <<now, mounted, currentYear, displayMonth, monthlyData, timer, storage,
                   ticks, callVars, evalVars>>

\* the zoom-out and zoom-in buttons: setZoom((z) => clamp(z + step, 0.5, 2.5));
\* React skips the render when the value is the one it was
Zoom(field, step) ==
    /\ events < MaxEvents
    /\ events' = events + 1
    /\ LET z == clamp(settings[field] + step, ZOOM_MIN, ZOOM_MAX)
       IN  SetSettings([settings EXCEPT ![field] = z], z # settings[field])
    /\ lastOp' = "Zoom"

ZoomOut(field) == Zoom(field, 0 - ZOOM_STEP)
ZoomIn(field)  == Zoom(field, ZOOM_STEP)

\* the reset button: setZoom(1)
ZoomReset(field) ==
    /\ events < MaxEvents
    /\ events' = events + 1
    /\ SetSettings([settings EXCEPT ![field] = ZOOM_RESET], settings[field] # ZOOM_RESET)
    /\ lastOp' = "ZoomReset"

\* openMetricsEditor: the draft is a copy of the metrics
openMetricsEditor ==
    /\ events < MaxEdits
    /\ events' = events + 1
    /\ ~renderPending
    /\ ~settings.editMetrics
    /\ SetSettings([settings EXCEPT !.metricsDraft = settings.metrics, !.editMetrics = TRUE], FALSE)
    /\ lastOp' = "openMetricsEditor"

\* uid('m'): an id no metric of the draft has
FreshIds == <<"m-x", "m-y", "m-z">>
uid(draft) ==
    FreshIds[CHOOSE i \in DOMAIN FreshIds :
                /\ \A k \in DOMAIN draft : draft[k].id # FreshIds[i]
                /\ \A j \in 1..(i - 1) : \E k \in DOMAIN draft : draft[k].id = FreshIds[j]]

\* addMetricDraft: a new metric in front
addMetricDraft ==
    /\ events < MaxEdits
    /\ events' = events + 1
    /\ settings.editMetrics
    /\ SetSettings([settings EXCEPT !.metricsDraft =
                       <<[id |-> uid(settings.metricsDraft), label |-> "New Metric",
                          value |-> "0", unit |-> ""]>> \o settings.metricsDraft], FALSE)
    /\ lastOp' = "addMetricDraft"

\* p.filter((m) => m.id !== id)
RECURSIVE WithoutId(_, _)
WithoutId(p, id) ==
    IF p = << >> THEN << >>
    ELSE IF Head(p).id = id THEN WithoutId(Tail(p), id)
    ELSE <<Head(p)>> \o WithoutId(Tail(p), id)

\* deleteMetricDraft(id), from the delete button of a row of the draft
deleteMetricDraft(id) ==
    /\ events < MaxEdits
    /\ events' = events + 1
    /\ settings.editMetrics
    /\ \E k \in DOMAIN settings.metricsDraft : settings.metricsDraft[k].id = id
    /\ SetSettings([settings EXCEPT !.metricsDraft = WithoutId(settings.metricsDraft, id)], FALSE)
    /\ lastOp' = "deleteMetricDraft"

\* saveMetricsEditor: the metrics become a copy of the draft, the dialog
\* closes, lastUpdateIso changes
saveMetricsEditor ==
    /\ events < MaxEdits
    /\ events' = events + 1
    /\ settings.editMetrics
    /\ SetSettings([settings EXCEPT !.metrics = settings.metricsDraft, !.editMetrics = FALSE], TRUE)
    /\ lastOp' = "saveMetricsEditor"

\* the lines a ticker draft may hold after split, trim and filter(Boolean)
TickerDrafts == { << >>, <<"Fire drill">> }

IdOfIndex == <<"1", "2", "3">>

\* saveTickerEditor: one announcement per line of the draft, the default
\* announcements when it has none; lastUpdateIso changes
saveTickerEditor(lines) ==
    /\ events < MaxEvents
    /\ events' = events + 1
    /\ SetSettings([settings EXCEPT !.announcements =
                       IF Len(lines) # 0
                       THEN [idx \in 1..Len(lines) |-> [id |-> IdOfIndex[idx], text |-> lines[idx]]]
                       ELSE DEFAULT_ANNOUNCEMENTS], TRUE)
    /\ lastOp' = "saveTickerEditor"

\* The debounce timeout fires and localStorage.setItem throws, the storage
\* being full or unavailable: the empty catch swallows it
WriteFail ==
    /\ \E w \in writeTimer :
          /\ MomentLE(w.deadline, now)
          /\ writeTimer' = writeTimer \ {w}
    /\ lastOp' = "WriteFail"
    /\ UNCHANGED <<now, mounted, currentYear, displayMonth, monthlyData, rendered,
                   renderPending, timer, storage, settings, ticks, events, callVars, evalVars>>

\* a stored document all of whose properties are well-shaped; the top
\* poster's zoom is below the range, the bottom poster's one step below its end
WellShapedDoc(y) ==
    [kind |-> "doc",
     monthlyData      |-> JArray(StoredCalendar(y)),
     announcements    |-> JArray(<<[id |-> "1", text |-> "Fire drill"]>>),
     metrics          |-> JArray(<<[id |-> "m9", label |-> "LTI", value |-> "3", unit |-> "case"]>>),
     posterTop        |-> JText("/custom.png"),
     posterTopZoom    |-> JNumber(30),
     posterBottomZoom |-> JNumber(240),
     policyZoom       |-> JNumber(175),
     targetVars       |-> JObject([manpower |-> 700])]

\* a stored document none of whose properties is well-shaped; the top
\* poster's zoom is a number above the range
IllShapedDoc(y) ==
    [kind |-> "doc",
     monthlyData      |-> JArray(ShortCalendar(y)),
     announcements    |-> JText("none"),
     metrics          |-> JNull,
     posterTop        |-> JNumber(5),
     posterTopZoom    |-> JNumber(1000),
     posterBottomZoom |-> JText("2"),
     policyZoom       |-> JMissing,
     targetVars       |-> JNull]

SettingsDocs(y) == { Corrupt, WellShapedDoc(y), IllShapedDoc(y) }

\* the rows of the draft whose delete button the exploration presses: the
\* first and the last
DeletableRows == { k \in DOMAIN settings.metricsDraft : k = 1 \/ k = Len(settings.metricsDraft) }

InitSettings ==
    /\ now = At(2026, 2, 15, 15, 59, 59, 900)
    /\ mounted = FALSE
    /\ currentYear = now.year
    /\ displayMonth = now.month
    /\ monthlyData = createYearData(now.year)
    /\ rendered = [monthlyData |-> createYearData(now.year), displayMonth |-> now.month]
    /\ renderPending = FALSE
    /\ timer = << >>
    /\ writeTimer = {}
    /\ \E d \in SettingsDocs(now.year) :
          storage = [y \in YearKeys |-> IF y = now.year THEN d ELSE Absent]
    /\ settings = InitialSettings
    /\ lastOp = "init"
    /\ ticks = 0 /\ events = 0
    /\ NoCall
    /\ NoEval

\* the dashboard with the zoom buttons and a storage that may fail to write
NextSettings ==
    \/ Mount
    \/ Render
    \/ TimerFire
    \/ WriteFire
    \/ WriteFail
    \/ \E f \in ZoomFields : ZoomOut(f)
    \/ \E f \in ZoomFields : ZoomReset(f)
    \/ \E f \in ZoomFields : ZoomIn(f)
    \/ \E d \in ClickDays : Click(d)
    \/ Tick

SpecSettings == InitSettings /\ [][NextSettings]_vars

\* the dashboard with the metrics editor and the ticker editor
NextEditors ==
    \/ Mount
    \/ Render
    \/ TimerFire
    \/ WriteFire
    \/ openMetricsEditor
    \/ addMetricDraft
    \/ \E k \in DeletableRows : deleteMetricDraft(settings.metricsDraft[k].id)
    \/ saveMetricsEditor
    \/ \E lines \in TickerDrafts : saveTickerEditor(lines)
    \/ \E d \in ClickDays : Click(d)
    \/ Tick

SpecEditors == InitSettings /\ [][NextEditors]_vars

----------------------------------------------------------------------------
(* The load effect, applied to documents of mixed shapes *)

\* the documents each of whose properties is the well-shaped or the
\* ill-shaped one, in every combination (the three zooms together)
MixedDocs(y) ==
    { [kind |-> "doc",
       monthlyData      |-> c.monthlyData,
       announcements    |-> a.announcements,
       metrics          |-> m.metrics,
       posterTop        |-> p.posterTop,
       posterTopZoom    |-> z.posterTopZoom,
       posterBottomZoom |-> z.posterBottomZoom,
       policyZoom       |-> z.policyZoom,
       targetVars       |-> v.targetVars] :
        c \in {WellShapedDoc(y), IllShapedDoc(y)}, a \in {WellShapedDoc(y), IllShapedDoc(y)},
        m \in {WellShapedDoc(y), IllShapedDoc(y)}, p \in {WellShapedDoc(y), IllShapedDoc(y)},
        z \in {WellShapedDoc(y), IllShapedDoc(y)}, v \in {WellShapedDoc(y), IllShapedDoc(y)} }

InitLoad ==
    /\ DashIdle
    /\ NoEval
    /\ \E d \in MixedDocs(2026) \cup {Absent, Corrupt} :
       \E t \in { At(2026, 2, 15, 10, 0, 0, 0), At(2026, 2, 15, 16, 0, 0, 0) } :
          /\ args = [fn |-> "load", doc |-> d, now |-> t, year |-> 2026]
          /\ ret = [calls |-> 0, monthlyData |-> createYearData(2026), settings |-> InitialSettings]

\* the load effect, on the state the first render left
CallLoad ==
    /\ args.fn = "load"
    /\ ret.calls = 0
    /\ ret' = [calls |-> 1,
               monthlyData |-> LoadedMonthly(args.doc, args.year, args.now),
               settings |-> LoadedSettings(args.doc, InitialSettings)]
    /\ UNCHANGED <<args, dashVars, evalVars>>

NextLoad == CallLoad

SpecLoad == InitLoad /\ [][NextLoad]_vars

\* calendar c is calendar base with its due unset days made safe
BackfillOf(c, base, t) ==
    /\ DOMAIN c = DOMAIN base
    /\ \A m \in DOMAIN base :
          /\ DOMAIN c[m].days = DOMAIN base[m].days
          /\ \A i \in DOMAIN base[m].days :
                c[m].days[i].status =
                    (IF DueUnset(base, m, i, t) THEN "safe" ELSE base[m].days[i].status)

----------------------------------------------------------------------------
(* Storage failures and the debounce *)

\* a step that changed the calendar or a setting in an event handler, or the
\* render after the load effect or the scheduler changed the calendar
Mutation ==
    \/ lastOp' \in {"Click", "Zoom", "ZoomReset"}
          /\ (monthlyData' # monthlyData \/ settings' # settings)
    \/ lastOp' = "Render" /\ renderPending /\ ~renderPending'

\* the one write timeout a mutation leaves pending
ArmedWrite ==
    {[deadline |-> AddMs(now, 450), key |-> currentYear,
      payload |-> Payload(monthlyData', settings')]}

\* C26: a read that throws is taken for no data - the fresh backfilled
\* calendar, the defaults beside it, the dashboard mounted with its timers
\* armed; a write that throws is skipped - calendar, settings, storage,
\* mounting and rollover timer as they were - and the next mutation still
\* arms its own write.
C26_StorageFailuresSwallowed ==
    [][/\ (lastOp' = "Mount" /\ storage[now.year].kind = "corrupt") =>
             /\ BackfillOf(monthlyData', createYearData(now.year), now)
             /\ settings' = InitialSettings
             /\ mounted' /\ timer' # << >> /\ writeTimer' # {}
             /\ storage' = storage
       /\ (lastOp' = "WriteFail" /\ lastOp # "WriteFail") =>
             /\ monthlyData' = monthlyData /\ settings' = settings
             /\ rendered' = rendered /\ storage' = storage
             /\ mounted' = mounted /\ timer' = timer
       /\ (lastOp = "WriteFail" /\ Mutation) => writeTimer' = ArmedWrite
      ]_vars

\* C26 witness: the read threw at mount, the top poster was zoomed in, and
\* the write of that threw too: the zoom is still 1.1, nothing is stored,
\* the dashboard is mounted and a further event can follow
C26_Witness ==
    /\ lastOp = "WriteFail" /\ mounted /\ events < MaxEvents
    /\ storage[currentYear].kind = "corrupt"
    /\ settings.posterTopZoom = 110
    /\ monthlyData[0].days[0].status = "safe"
    /\ timer # << >> /\ writeTimer = {}

\* C27: at most one write timeout is pending; every mutation replaces it by
\* one due 450 ms later that carries the state after the mutation; and a
\* write happens when that timeout is due, 450 ms after the last mutation,
\* stores the state as it is then, and leaves no timeout pending - so
\* mutations less than 450 ms apart end in exactly one write.
C27_WritesCoalesce ==
    /\ [](Cardinality(writeTimer) <= 1)
    /\ [][/\ Mutation => writeTimer' = ArmedWrite
          /\ lastOp' = "WriteFire" /\ lastOp # "WriteFire" =>
                /\ mounted
                /\ \E w \in writeTimer :
                      /\ w.deadline = now
                      /\ w.payload = Payload(monthlyData, settings)
                      /\ storage' = [storage EXCEPT ![currentYear] = Stored(w.payload)]
                /\ writeTimer' = {}
         ]_vars

\* C27 witness: two zoom-ins of the top poster, the scheduler's promotion
\* of today at 16:00 among them, and one write at 16:00:00.450 that stored
\* the zoom of 1.2 and the promoted day
C27_Witness ==
    /\ lastOp = "WriteFire" /\ events = 2 /\ ticks = 2
    /\ now.ms = 16 * 60 * 60 * 1000 + 450
    /\ settings.posterTopZoom = 120
    /\ monthlyData[2].days[14].status = "safe"
    /\ storage[currentYear] = Stored(Payload(monthlyData, settings))
    /\ writeTimer = {}

----------------------------------------------------------------------------
(* The round trip through the storage *)

\* C28: in every state the dashboard is in after its render, storing the
\* payload of the persist effect and loading it for the same year at the
\* same moment gives back the calendar, the announcements and the metrics
\* (taken before 16:00, when the scheduler has nothing of today to promote).
C28_RoundTrip ==
    (mounted /\ ~renderPending /\ now.ms < 16 * 60 * 60 * 1000) =>
        LET doc == Stored(Payload(monthlyData, settings))
        IN  /\ LoadedMonthly(doc, currentYear, now) = monthlyData
            /\ LoadedSettings(doc, InitialSettings).announcements = settings.announcements
            /\ LoadedSettings(doc, InitialSettings).metrics = settings.metrics

----------------------------------------------------------------------------
(* The zoom levels *)

\* C29: each of the three zoom levels lies in [0.5, 2.5] in every state;
\* right after the load a stored number below the range is 0.5, one above
\* it 2.5, one inside it itself, and anything but a number 1.
C29_ZoomInRange ==
    /\ \A f \in ZoomFields : settings[f] >= 50 /\ settings[f] <= 250
    /\ lastOp = "Mount" =>
          \A f \in ZoomFields :
              LET doc == storage[currentYear]
              IN  IF doc.kind = "doc" /\ doc[f].type = "number"
                  THEN settings[f] = (IF doc[f].n < 50 THEN 50
                                      ELSE IF doc[f].n > 250 THEN 250 ELSE doc[f].n)
                  ELSE settings[f] = 100

\* C29 witness: the stored zoom of 10 of the top poster was loaded as 2.5,
\* and the one event since, a zoom button, left every zoom where the load
\* put it: it was the top poster's zoom-in, held at 2.5
C29_Witness ==
    /\ lastOp = "Zoom" /\ events = 1 /\ mounted
    /\ storage[currentYear].kind = "doc"
    /\ storage[currentYear].posterTopZoom = JNumber(1000)
    /\ settings.posterTopZoom = 250
    /\ settings.posterBottomZoom = 100
    /\ settings.policyZoom = 100

----------------------------------------------------------------------------
(* The turn of the year *)

\* C30: when the year has turned while the dashboard is mounted, the
\* rollover timeout that fires in the new year leaves the dashboard on the
\* new year: currentYear is the clock's year and the calendar in memory is
\* a calendar of that year.
C30_NewYearNewCalendar ==
    [][(lastOp' = "TimerFire" /\ mounted) =>
          /\ currentYear' = now.year
          /\ \A m \in DOMAIN monthlyData' : monthlyData'[m].year = now.year
      ]_vars

----------------------------------------------------------------------------
(* Displaying what was loaded *)

\* an element of a stored array is a record of the properties it has, or a
\* tagged value when it is null or a number
IsTagged(e) == "type" \in DOMAIN e

\* tickerText: announcements.map((a) => a.text).filter(Boolean): a.text of
\* null is a TypeError, of a number or of a record without text undefined
tickerText(announcements) ==
    IF \E i \in DOMAIN announcements : IsTagged(announcements[i]) /\ announcements[i].type = "null"
    THEN [thrown |-> TRUE, texts |-> << >>]
    ELSE [thrown |-> FALSE,
          texts  |-> LET kept == SelectSeq(announcements,
                                           LAMBDA a : ~IsTagged(a) /\ "text" \in DOMAIN a)
                     IN  [i \in DOMAIN kept |-> kept[i].text]]

\* the metrics grid: metrics.map((m) => ... m.id ... metricToneKey(m.label) ...):
\* m.id of null is a TypeError, and so is label.trim() of a label that is
\* undefined
metricsGrid(metrics) ==
    [thrown |-> \E i \in DOMAIN metrics :
                    IsTagged(metrics[i]) \/ "label" \notin DOMAIN metrics[i]]

\* stored documents whose announcements and metrics are the well-shaped
\* ones, arrays of null, of a number, of a record that lacks text or label,
\* or no arrays, with a valid or an invalid calendar
DisplayDocs(y) ==
    { [WellShapedDoc(y) EXCEPT !.monthlyData = c, !.announcements = a, !.metrics = m] :
        c \in {JArray(StoredCalendar(y)), JArray(ShortCalendar(y))},
        a \in {WellShapedDoc(y).announcements, JArray(<<JNull>>), JArray(<<JNumber(5)>>),
               JArray(<<[id |-> "1"]>>), JText("none")},
        m \in {WellShapedDoc(y).metrics, JArray(<<JNull>>), JArray(<<JNumber(5)>>),
               JArray(<<[id |-> "m1", value |-> "0", unit |-> "case"]>>), JNull} }

InitDisplay ==
    /\ DashIdle
    /\ NoEval
    /\ \E d \in DisplayDocs(2026) :
          /\ args = [fn |-> "display", doc |-> d, now |-> At(2026, 2, 15, 10, 0, 0, 0), year |-> 2026]
          /\ ret = [calls |-> 0, settings |-> InitialSettings, thrown |-> FALSE]

\* the load effect on the state of the first render
LoadForDisplay ==
    /\ args.fn = "display"
    /\ ret.calls = 0
    /\ ret' = [calls |-> 1, settings |-> LoadedSettings(args.doc, InitialSettings), thrown |-> FALSE]
    /\ UNCHANGED <<args, dashVars, evalVars>>

\* the render of the loaded state
Display ==
    /\ args.fn = "display"
    /\ ret.calls = 1
    /\ ret' = [ret EXCEPT !.calls = 2,
                          !.thrown = \/ tickerText(ret.settings.announcements).thrown
                                     \/ metricsGrid(ret.settings.metrics).thrown]
    /\ UNCHANGED <<args, dashVars, evalVars>>

NextDisplay == LoadForDisplay \/ Display

SpecDisplay == InitDisplay /\ [][NextDisplay]_vars

\* C31: whatever the stored document holds, loading it and rendering the
\* loaded state never throws.
C31_DisplayNeverThrows ==
    (args.fn = "display" /\ ret.calls = 2) => ~ret.thrown

----------------------------------------------------------------------------
(* Clicks and scheduler fires interleaved *)

\* the days of month m whose status differs between the calendars a and b
ChangedDays(a, b, m) == { i \in DOMAIN a[m].days : a[m].days[i].status # b[m].days[i].status }

\* C32: no update is lost when clicks and scheduler fires interleave: a
\* fire leaves every decided day as it was, whether rendered or not, and a
\* click changes one day of the month on display and leaves every other
\* day, the ones the scheduler has just promoted included, as it was.
C32_NoLostUpdate ==
    [][/\ lastOp' = "TimerFire" =>
             \A m \in DOMAIN monthlyData : \A i \in DOMAIN monthlyData[m].days :
                 monthlyData[m].days[i].status # null =>
                     monthlyData'[m].days[i] = monthlyData[m].days[i]
       /\ lastOp' = "Click" =>
             /\ \A m \in DOMAIN monthlyData :
                   m # rendered.displayMonth => monthlyData'[m] = monthlyData[m]
             /\ Cardinality(ChangedDays(monthlyData, monthlyData', rendered.displayMonth)) <= 1
      ]_vars

\* C32 witness: with nothing stored, the scheduler made March 15 safe at
\* its fire after 16:00 and the one click, on March 14, made that day a
\* near miss: both are in the calendar
C32_Witness ==
    /\ lastOp = "Click" /\ events = 1 /\ mounted
    /\ storage[currentYear].kind = "absent"
    /\ now.month = 2 /\ now.date = 15 /\ now.ms >= 16 * 60 * 60 * 1000
    /\ monthlyData[2].days[14].status = "safe"
    /\ monthlyData[2].days[13].status = "near_miss"
    /\ monthlyData[2].days[12].status = "safe"

----------------------------------------------------------------------------
(* Every mutation reaches the storage *)

\* the document the storage would hold had the state in memory been written
Snapshot == Stored(Payload(monthlyData, settings))

\* C33: while the dashboard is mounted and rendered, a state in memory that
\* the storage does not hold has its write pending: one timeout, for this
\* year's key, carrying that very state, due no later than 450 ms from
\* now; and when that timeout has fired the stored document is the state
\* in memory.  (No write fails in this specification.)
C33_MutationsGetWritten ==
    /\ (mounted /\ ~renderPending /\ storage[currentYear] # Snapshot) =>
          \E w \in writeTimer :
              /\ writeTimer = {w}
              /\ w.key = currentYear
              /\ w.payload = Payload(monthlyData, settings)
              /\ MomentLE(w.deadline, AddMs(now, 450))
    /\ (mounted /\ ~renderPending /\ lastOp = "WriteFire") => storage[currentYear] = Snapshot

\* C33 witness: March 14 was clicked from safe to near miss, 450 ms passed
\* and the write fired: the stored document holds the near miss
C33_Witness ==
    /\ lastOp = "WriteFire" /\ mounted /\ ~renderPending /\ events = 1
    /\ monthlyData[2].days[13].status = "near_miss"
    /\ storage[currentYear].kind = "doc"
    /\ storage[currentYear].monthlyData.items[2].days[13].status = "near_miss"
    /\ storage[currentYear] = Snapshot
    /\ writeTimer = {}

----------------------------------------------------------------------------
(* The first write after mount *)

\* the document a write of the useState initialisers would store for year y
InitialSnapshot(y) == Stored(Payload(createYearData(y), InitialSettings))

\* C34: a step that replaces a stored document whose calendar is valid
\* stores the state in memory, which after mount is the loaded state, and
\* never the useState initialisers: the timeout armed by the first render
\* is cleared by the render that follows the load, before it can fire.
C34_DefaultsNeverOverwrite ==
    [][\A y \in DOMAIN storage :
          (/\ storage[y].kind = "doc"
           /\ isValidMonthlyData(storage[y].monthlyData, y)
           /\ storage'[y] # storage[y]) =>
              /\ storage'[y] = Stored(Payload(monthlyData', settings'))
              /\ storage'[y] # InitialSnapshot(y)
      ]_vars

\* C34 witness: mounted over a well-shaped document, no click; the first
\* write has fired and stored the loaded, backfilled state (January 14 safe,
\* the stored accident of March 14 kept) with the stored poster, not the
\* initial defaults
C34_Witness ==
    /\ lastOp = "WriteFire" /\ mounted /\ events = 0 /\ ticks = 2
    /\ settings = LoadedSettings(WellShapedDoc(currentYear), InitialSettings)
    /\ settings.posterTop = "/custom.png"
    /\ storage[currentYear] = Stored(Payload(monthlyData, settings))
    /\ storage[currentYear] # InitialSnapshot(currentYear)
    /\ storage[currentYear] # WellShapedDoc(currentYear)
    /\ monthlyData[0].days[13].status = "safe"
    /\ monthlyData[2].days[13].status = "accident"

----------------------------------------------------------------------------
(* The streak on the day of an accident *)

\* C36: when today's status is accident the streak is the run of safe and
\* near-miss days that ends yesterday: today is not counted and does not
\* reset it.  The same calendar read on the next day, with that day not
\* counted, gives 0.
C36_AccidentTodayCountsToYesterday ==
    (/\ args.fn = "safetyStreak" /\ ret.calls = 1
     /\ args.now.year = args.year
     /\ StatusAt(args.monthlyData, args.now.month, args.now.date - 1) = "accident") =>
        LET y         == args.year
            today     == DayNum(y, args.now.month, args.now.date) - DayNum(y, 0, 1) + 1
            yesterday == today - 1
            counted   == [n \in 1..today |-> StreakDay(args.monthlyData, y, n)]
            next      == NextDate(args.now)
        IN  /\ ret.value \in 0..yesterday
            /\ \A j \in 0..(ret.value - 1) : counted[yesterday - j]
            /\ ret.value = yesterday \/ ~counted[yesterday - ret.value]
            /\ (/\ next.year = y
                /\ StatusAt(args.monthlyData, next.month, next.date - 1) \notin {"safe", "near_miss"}) =>
                   safetyStreak(args.monthlyData, next, y) = 0

\* C36 witness: March 15 holds an accident, after a safe March 13 and a near
\* miss on March 14 and the safe stretch before them: on March 15 the streak
\* is positive, on March 16 it is 0
C36_Witness ==
    /\ args.fn = "safetyStreak" /\ ret.calls = 1
    /\ args.now = At(2026, 2, 15, 10, 0, 0, 0) /\ args.year = 2026
    /\ StatusAt(args.monthlyData, 2, 14) = "accident"
    /\ StatusAt(args.monthlyData, 2, 13) = "near_miss"
    /\ StatusAt(args.monthlyData, 2, 12) = "safe"
    /\ StatusAt(args.monthlyData, 2, 11) = "safe"
    /\ StatusAt(args.monthlyData, 2, 15) = null
    /\ ret.value > 2
    /\ safetyStreak(args.monthlyData, At(2026, 2, 16, 10, 0, 0, 0), 2026) = 0

----------------------------------------------------------------------------
(* The streak on the screen.  safetyStreak is a useMemo with the
   dependencies [monthlyData, currentYear]: its function, which reads the
   clock, runs in the first render and in each later render in which
   monthlyData is another array.  `ret` holds the value on the screen. *)

\* the moments the page of this exploration is opened at: an afternoon in
\* March and the afternoon of the last day of the year
MemoMoments == { At(2026, 2, 14, 15, 0, 0, 0), At(2026, 11, 31, 15, 0, 0, 0) }

\* the stored calendars of this exploration: an accident four days before
\* t, yesterday and today unset or an accident, the rest never decided
MemoCalendars(t) ==
    { WithStatus(WithStatus(WithStatus(createYearData(t.year), t.month, t.date - 4, "accident"),
                            t.month, t.date - 1, a), t.month, t.date, b) :
        a \in {null, "accident"}, b \in {null, "accident"} }

\* mounted, loaded and rendered: the calendar is the stored one as the load
\* effect backfilled it, the memo holds the streak computed in that render
InitMemo ==
    /\ now \in MemoMoments
    /\ mounted = TRUE
    /\ currentYear = now.year
    /\ displayMonth = now.month
    /\ \E c \in MemoCalendars(now) : monthlyData = applyAutoSafe(c, now, now.year)
    /\ rendered = [monthlyData |-> monthlyData, displayMonth |-> displayMonth]
    /\ renderPending = FALSE
    /\ timer = <<scheduleNext(now)>>
    /\ writeTimer = {}
    /\ storage = [y \in YearKeys |-> Absent]
    /\ settings = InitialSettings
    /\ lastOp = "init"
    /\ ticks = 0 /\ events = 0
    /\ args = [fn |-> "useMemo"]
    /\ ret = [value |-> safetyStreak(monthlyData, now, currentYear)]
    /\ NoEval

\* a click on a day cell of the displayed month: setDayStatus always
\* returns another array, the render runs the memo's function
MemoClick(day) ==
    /\ events < MaxEvents
    /\ events' = events + 1
    /\ monthlyData' = cycleDayStatus(monthlyData, rendered.monthlyData, rendered.displayMonth, day)
    /\ rendered' = [monthlyData |-> monthlyData', displayMonth |-> displayMonth]
    /\ ret' = [value |-> safetyStreak(monthlyData', now, currentYear)]
    /\ lastOp' = "Click"
    /\ UNCHANGED <<now, mounted, currentYear, displayMonth, renderPending, timer, writeTimer,
                   storage, settings, ticks, args, evalVars>>

\* the rollover timeout fires: applyAutoSafe returns prev itself when it
\* changes no day, React then renders nothing and the memo keeps its value;
\* when a day changes the render runs the memo's function
MemoTimerFire ==
    /\ MomentLE(timer[1], now)
    /\ timer' = <<scheduleNext(now)>>
    /\ monthlyData' = applyAutoSafe(monthlyData, now, currentYear)
    /\ rendered' = [monthlyData |-> monthlyData', displayMonth |-> displayMonth]
    /\ ret' = IF monthlyData' # monthlyData
              THEN [value |-> safetyStreak(monthlyData', now, currentYear)]
              ELSE ret
    /\ lastOp' = "TimerFire"
    /\ UNCHANGED <<now, mounted, currentYear, displayMonth, renderPending, writeTimer,
                   storage, settings, ticks, events, args, evalVars>>

\* time passes, up to the rollover deadline or to midnight: nothing renders
MemoTick ==
    /\ ticks < MaxTicks
    /\ MomentLT(now, timer[1])
    /\ LET midnight == [NextDate(now) EXCEPT !.ms = 0]
       IN  now' = IF MomentLT(timer[1], midnight) THEN timer[1] ELSE midnight
    /\ ticks' = ticks + 1
    /\ lastOp' = "Tick"
    /\ UNCHANGED <<mounted, currentYear, displayMonth, monthlyData, rendered, renderPending,
                   timer, writeTimer, storage, settings, events, callVars, evalVars>>

NextMemo ==
    \/ \E day \in ClickDays : MemoClick(day)
    \/ MemoTimerFire
    \/ MemoTick

SpecMemo == InitMemo /\ [][NextMemo]_vars

\* C35: the streak on the screen is safetyStreak of the calendar in memory
\* read at the present moment, at every moment: also after midnight, after
\* the turn of the year, and after a fire of the rollover timeout that
\* changes no day.
C35_StreakNeverStale ==
    args.fn = "useMemo" => ret.value = safetyStreak(monthlyData, now, currentYear)

----------------------------------------------------------------------------
(* The day field of the records of a loaded calendar *)

\* a stored calendar of year y, never decided, in which the records of
\* month m carry the day numbers shifted by k: 12 months, each of its year
\* and month and with as many records as the month has days
ShiftedDays(y, m, k) ==
    [createYearData(y) EXCEPT ![m].days =
        [i \in DOMAIN createYearData(y)[m].days |-> [day |-> i + 1 + k, status |-> null]]]

InitDays ==
    /\ DashIdle
    /\ NoEval
    /\ \E m \in 0..11 : \E k \in {0 - 1, 0, 1} :
       \E t \in { At(2026, 2, 15, 10, 0, 0, 0), At(2026, 2, 15, 16, 0, 0, 0),
                  At(2026, 11, 31, 17, 0, 0, 0) } :
          /\ args = [fn |-> "loadDays", doc |-> Doc(JArray(ShiftedDays(2026, m, k))),
                     now |-> t, year |-> 2026]
          /\ ret = [calls |-> 0, monthlyData |-> createYearData(2026)]

\* the load effect: isValidMonthlyData, then applyAutoSafe of what it accepts
CallLoadDays ==
    /\ args.fn = "loadDays"
    /\ ret.calls = 0
    /\ ret' = [calls |-> 1, monthlyData |-> LoadedMonthly(args.doc, args.year, args.now)]
    /\ UNCHANGED <<args, dashVars, evalVars>>

NextDays == CallLoadDays

SpecDays == InitDays /\ [][NextDays]_vars

\* C37: in the calendar the load leaves in memory the record at index i of
\* every month has day = i + 1, so that the date applyAutoSafe gives a
\* record (by its day field) is the date of the cell that shows it (by its
\* index): the unset records it promoted are those whose cell is before
\* today, or is today after the cutoff.
C37_DayFieldIsIndexPlusOne ==
    (args.fn = "loadDays" /\ ret.calls = 1) =>
        \A m \in DOMAIN ret.monthlyData : \A i \in DOMAIN ret.monthlyData[m].days :
            /\ ret.monthlyData[m].days[i].day = i + 1
            /\ ret.monthlyData[m].days[i].status = "safe" <=>
                  \/ DayNum(args.year, m, i + 1) < DayNum(args.year, args.now.month, args.now.date)
                  \/ /\ m = args.now.month /\ i + 1 = args.now.date
                     /\ getHours(args.now) >= AUTO_SAFE_HOUR

----------------------------------------------------------------------------
(* The numbers of a loaded document.  In this section a value is held with
   its JavaScript type, the defaults included. *)

JBool(b) == [type |-> "boolean", b |-> b]

\* NaN, the number that is not finite, as a stored value's conversion
JNaN == [type |-> "NaN"]

\* Number(x), for the values of this exploration; of the texts, "" is 0,
\* "12" is 12 and "abc" is NaN
NumberOf(x) ==
    CASE x.type = "number"    -> x
      [] x.type = "string"    -> (IF x.s = "" THEN JNumber(0)
                                  ELSE IF x.s = "12" THEN JNumber(12) ELSE JNaN)
      [] x.type = "boolean"   -> JNumber(IF x.b THEN 1 ELSE 0)
      [] x.type = "null"      -> JNumber(0)
      [] OTHER                -> JNaN

\* Number.isFinite(Number(x)) ? Number(x) : 0
LoadedNumber(x) == IF NumberOf(x).type = "number" THEN NumberOf(x) ELSE JNumber(0)

\* DEFAULT_TARGET_VARS, each value with its type
TypedTargetDefaults == [k \in DOMAIN DEFAULT_TARGET_VARS |-> JNumber(DEFAULT_TARGET_VARS[k])]

\* x && typeof x === 'object' ? { ...DEFAULT_TARGET_VARS, ...x } : DEFAULT_TARGET_VARS,
\* as LoadedTargetVars, the stored fields being values with their types
LoadedTargetVarsTyped(x) ==
    IF x.type = "object"
    THEN [k \in DOMAIN DEFAULT_TARGET_VARS \cup DOMAIN x.fields |->
            IF k \in DOMAIN x.fields THEN x.fields[k] ELSE TypedTargetDefaults[k]]
    ELSE TypedTargetDefaults

\* the values a property of a stored document holds in this exploration
StoredValues ==
    { JNumber(3), JText("12"), JText("abc"), JText(""), JBool(TRUE), JNull, JMissing }

\* the targetVars of the stored documents: none, null, an object with one
\* of the variables, an object with all five
StoredTargetVars ==
    {JMissing, JNull}
    \cup { JObject([manpower |-> v]) : v \in StoredValues \ {JMissing} }
    \cup { JObject([manpower |-> v, daysPerWeek |-> JNumber(5), hoursPerDay |-> JNumber(8),
                    workingDaysYear |-> v, workingDaysSoFar |-> JNumber(40)]) :
             v \in {JNumber(3), JText("12"), JNull} }

InitNumbers ==
    /\ DashIdle
    /\ NoEval
    /\ \E tv \in StoredTargetVars : \E b \in StoredValues : \E l \in {JNumber(3), JText("abc"), JMissing} :
          /\ args = [fn |-> "loadNumbers", targetVars |-> tv, bestRecord |-> b,
                     lossTimeAccidents |-> l]
          /\ ret = [calls |-> 0, targetVars |-> TypedTargetDefaults, bestRecord |-> JNumber(0),
                    lossTimeAccidents |-> JNumber(0)]

\* the load effect, for targetVars, bestRecord and lossTimeAccidents
CallLoadNumbers ==
    /\ args.fn = "loadNumbers"
    /\ ret.calls = 0
    /\ ret' = [calls |-> 1,
               targetVars |-> LoadedTargetVarsTyped(args.targetVars),
               bestRecord |-> LoadedNumber(args.bestRecord),
               lossTimeAccidents |-> LoadedNumber(args.lossTimeAccidents)]
    /\ UNCHANGED <<args, dashVars, evalVars>>

NextNumbers == CallLoadNumbers

SpecNumbers == InitNumbers /\ [][NextNumbers]_vars

\* C38: after the load each of the five target variables, bestRecord and
\* lossTimeAccidents is a number, whatever the document held.
C38_LoadedNumbersAreNumbers ==
    (args.fn = "loadNumbers" /\ ret.calls = 1) =>
        /\ \A k \in DOMAIN DEFAULT_TARGET_VARS : ret.targetVars[k].type = "number"
        /\ ret.bestRecord.type = "number"
        /\ ret.lossTimeAccidents.type = "number"

----------------------------------------------------------------------------
(* An emptied poster slot, saved and loaded again *)

\* the Remove button of the top poster: setPosterTop(null)
removePosterTop ==
    /\ events < MaxEvents
    /\ events' = events + 1
    /\ SetSettings([settings EXCEPT !.posterTop = null], settings.posterTop # null)
    /\ lastOp' = "removePosterTop"

\* the dashboard with the Remove button, closed and opened again
NextPoster ==
    \/ Mount
    \/ Render
    \/ TimerFire
    \/ WriteFire
    \/ removePosterTop
    \/ Unmount
    \/ Tick

SpecPoster == InitSettings /\ [][NextPoster]_vars

\* C39: the dashboard that mounts over a stored document whose top poster
\* is null - a snapshot saved after the user emptied the slot - has an
\* empty top poster after the load.
C39_EmptyPosterStaysEmpty ==
    [][(/\ lastOp' = "Mount"
        /\ storage[now.year].kind = "doc"
        /\ storage[now.year].posterTop.type = "null") => settings'.posterTop = null
      ]_vars

====
